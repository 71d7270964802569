--------------------------- MODULE AbstractParcel ---------------------------
(***************************************************************************)
(* What utils/parcel.cpp offers its user, with no bytes in it: a parcel is *)
(* a sequence of fields with a position, written at its end and read from  *)
(* its beginning; send() and recv() move whole messages, in order.         *)
(***************************************************************************)
EXTENDS Naturals, Sequences

CONSTANTS Parcels, Outgoing, Incoming, Fields,
          Refused(_)   \* what a read of a kind returns at the parcel's end

VARIABLES fields,    \* per parcel: its fields
          at,        \* per parcel: how many of them are behind the position
          channel,   \* the messages under way
          got        \* what the last read returned

Put(p, f) ==
  /\ at[p] = Len(fields[p])
  /\ fields' = [fields EXCEPT ![p] = Append(@, f)]
  /\ at' = [at EXCEPT ![p] = @ + 1]
  /\ UNCHANGED <<channel, got>>

Get(p) ==
  /\ at[p] < Len(fields[p])
  /\ got' = fields[p][at[p] + 1].bytes
  /\ at' = [at EXCEPT ![p] = @ + 1]
  /\ UNCHANGED <<fields, channel>>

\* Behind the last field; a read of a string need not come back from there.
GetNothing(p) ==
  /\ at[p] = Len(fields[p])
  /\ \E f \in Fields : got' = Refused(f.kind)
  /\ UNCHANGED <<fields, at, channel>>

Rewound(p) == at' = [at EXCEPT ![p] = 0] /\ UNCHANGED <<fields, channel, got>>

Emptied(p) ==
  /\ fields' = [fields EXCEPT ![p] = <<>>]
  /\ at' = [at EXCEPT ![p] = 0]
  /\ UNCHANGED <<channel, got>>

Sent ==
  /\ at[Outgoing] = 0
  /\ channel' = Append(channel, fields[Outgoing])
  /\ UNCHANGED <<fields, at, got>>

Arrived ==
  /\ channel # <<>>
  /\ fields' = [fields EXCEPT ![Incoming] = Head(channel)]
  /\ at' = [at EXCEPT ![Incoming] = 0]
  /\ channel' = Tail(channel)
  /\ UNCHANGED got

ParcelInit ==
  /\ fields = [p \in Parcels |-> <<>>]
  /\ at = [p \in Parcels |-> 0]
  /\ channel = <<>>
  /\ got = <<>>

ParcelNext ==
  \/ \E p \in Parcels : \/ \E f \in Fields : Put(p, f)
                        \/ Get(p) \/ GetNothing(p) \/ Rewound(p) \/ Emptied(p)
  \/ Sent \/ Arrived

ParcelSpec == ParcelInit /\ [][ParcelNext]_<<fields, at, channel, got>>
=============================================================================
