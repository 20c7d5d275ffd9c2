------------------------- MODULE TLSRecordLayerProofs -------------------------
(***************************************************************************)
(* For any number of writes, KeyUpdates and faults, any capacity of the    *)
(* sockets and any settings of the two ends, the established connection is *)
(* type correct, and each of its ends is safe: no nonce is used twice,     *)
(* nothing leaves without protection or after a close, and a session that  *)
(* failed stays failed.  Each of its two directions delivers what was      *)
(* written, in order.                                                      *)
(***************************************************************************)
EXTENDS TLSRecordLayer, SequenceTheorems, TLAPS

-----------------------------------------------------------------------------
(***************************************************************************)
(* What the pieces an action is made of do to the state.                   *)
(***************************************************************************)

LEMMA PeerType ==
    ASSUME NEW e \in Ends
    PROVE  Peer(e) \in Ends /\ Peer(e) # e /\ Peer(Peer(e)) = e
BY EndsAssumption DEF Ends, Peer

\* A sealed record takes the place of the one being sent, and a number.
LEMMA SealEffect ==
    ASSUME TypeOK, NEW e \in Ends, NEW kind \in Kinds, Seal(e, kind)
    PROVE  /\ out' \in [Ends -> Records \cup {NoRecord}]
           /\ out'[e] \in Records
           /\ out'[e].kind = kind
           /\ out'[e].gen = writeState[e].gen
           /\ out'[e].seq = writeState[e].seq
           /\ out'[e].number = written'[e]
           /\ \A d \in Ends \ {e} : out'[d] = out[d]
           /\ writeState' \in [Ends -> States]
           /\ writeState'[e] = [gen |-> writeState[e].gen,
                                seq |-> writeState[e].seq + 1]
           /\ \A d \in Ends \ {e} : writeState'[d] = writeState[d]
           /\ written' \in [Ends -> Nat]
           /\ used' \in [Ends -> SUBSET ((Nat \cup {Plain}) \X Nat)]
           /\ used'[e] = used[e] \cup {<<writeState[e].gen, writeState[e].seq>>}
           /\ \A d \in Ends \ {e} : used'[d] = used[d]
<1> DEFINE n == IF kind = "application_data" THEN written[e] + 1 ELSE written[e]
           r == [kind |-> kind, gen |-> writeState[e].gen,
                 seq |-> writeState[e].seq, number |-> n, intact |-> TRUE]
<1>1. writeState \in [Ends -> States] /\ writeState[e] \in States
  BY DEF TypeOK, KeyTypes
<1>2. written \in [Ends -> Nat] /\ n \in Nat
  BY DEF TypeOK, AppTypes
<1>3. r \in Records
  BY <1>1, <1>2 DEF Records, States
<1>4. out' = [out EXCEPT ![e] = r] /\ written' = [written EXCEPT ![e] = n]
  BY DEF Seal
<1>5. writeState' = [writeState EXCEPT ![e].seq = @ + 1]
  BY DEF Seal
<1>6. used' = [used EXCEPT ![e] = @ \cup {<<writeState[e].gen, writeState[e].seq>>}]
  BY DEF Seal
<1>7. /\ out' \in [Ends -> Records \cup {NoRecord}] /\ out'[e] = r
      /\ \A d \in Ends \ {e} : out'[d] = out[d]
  BY <1>3, <1>4 DEF TypeOK, OpTypes
<1>8. written' \in [Ends -> Nat] /\ written'[e] = n
  BY <1>2, <1>4
<1>9. /\ writeState' \in [Ends -> States]
      /\ writeState'[e] = [gen |-> writeState[e].gen, seq |-> writeState[e].seq + 1]
      /\ \A d \in Ends \ {e} : writeState'[d] = writeState[d]
  BY <1>1, <1>5 DEF States
<1>10. /\ used' \in [Ends -> SUBSET ((Nat \cup {Plain}) \X Nat)]
       /\ used'[e] = used[e] \cup {<<writeState[e].gen, writeState[e].seq>>}
       /\ \A d \in Ends \ {e} : used'[d] = used[d]
  BY <1>1, <1>6 DEF TypeOK, PastTypes, States
<1> QED
  BY <1>3, <1>7, <1>8, <1>9, <1>10

\* The wire takes the record, or a peer that closed its socket loses it.
LEMMA PutEffect ==
    ASSUME TypeOK, NEW e \in Ends, at[e] \in Sending, Put(e)
    PROVE  /\ ~broken
           /\ out[e] \in Records
           /\ wire' \in [Ends -> Seq(Records)]
           /\ \/ sockOpen[Peer(e)] /\ wire'[e] = Append(wire[e], out[e])
              \/ ~sockOpen[Peer(e)] /\ wire'[e] = wire[e]
           /\ \A d \in Ends \ {e} : wire'[d] = wire[d]
<1>1. out[e] \in Records
  BY DEF TypeOK, OpTypes
<1>2. Append(wire[e], out[e]) \in Seq(Records)
  BY <1>1 DEF TypeOK, NetTypes
<1> QED
  BY <1>1, <1>2 DEF Put, TypeOK, NetTypes

LEMMA TakeEffect ==
    ASSUME TypeOK, NEW e \in Ends, Incoming(e), Take(e)
    PROVE  /\ wire' \in [Ends -> Seq(Records)]
           /\ wire'[Peer(e)] = Tail(wire[Peer(e)])
           /\ wire'[e] = wire[e]
           /\ Upcoming(e) \in Records
<1>1. wire[Peer(e)] \in Seq(Records) /\ wire[Peer(e)] # <<>> /\ Peer(e) \in Ends
  BY PeerType DEF TypeOK, NetTypes, Incoming
<1>2. Tail(wire[Peer(e)]) \in Seq(Records) /\ Head(wire[Peer(e)]) \in Records
  BY <1>1
<1> QED
  BY <1>1, <1>2, PeerType DEF Take, Upcoming, TypeOK, NetTypes

LEMMA CountRecordEffect ==
    ASSUME TypeOK, NEW e \in Ends, CountRecord(e)
    PROVE  /\ readState' \in [Ends -> States]
           /\ readState'[e] = [gen |-> readState[e].gen,
                               seq |-> readState[e].seq + 1]
           /\ \A d \in Ends \ {e} : readState'[d] = readState[d]
BY DEF CountRecord, TypeOK, KeyTypes, States

LEMMA ShutdownEffect ==
    ASSUME TypeOK, NEW e \in Ends, NEW keep \in BOOLEAN, Shutdown(e, keep)
    PROVE  /\ writeState' \in [Ends -> States]
           /\ readState' \in [Ends -> States]
           /\ \A d \in Ends \ {e} : /\ writeState'[d] = writeState[d]
                                    /\ readState'[d] = readState[d]
           /\ EndSession(e, keep)
<1>1. NoKeys \in States
  BY DEF NoKeys, States
<1> QED
  BY <1>1 DEF Shutdown, ResetStates, TypeOK, KeyTypes

LEMMA EndSessionEffect ==
    ASSUME TypeOK, NEW e \in Ends, NEW keep \in BOOLEAN, EndSession(e, keep)
    PROVE  /\ EndTypes'
           /\ closed'[e]
           /\ resumable'[e] => resumable[e] /\ keep
           /\ \A d \in Ends \ {e} : /\ closed'[d] = closed[d]
                                    /\ sockOpen'[d] = sockOpen[d]
                                    /\ resumable'[d] = resumable[d]
BY SettingsAssumption DEF EndSession, TypeOK, EndTypes

LEMMA GotoEffect ==
    ASSUME TypeOK, NEW e \in Ends, NEW where, Goto(e, where),
           where \in {"idle"} \cup Sending \cup Receiving
    PROVE  /\ at' \in [Ends -> {"idle"} \cup Sending \cup Receiving]
           /\ at'[e] = where
           /\ \A d \in Ends \ {e} : at'[d] = at[d]
BY DEF Goto, TypeOK, OpTypes

LEMMA FinishEffect ==
    ASSUME TypeOK, NEW e \in Ends, NEW what, Finish(e, what),
           what \in {"nothing", "eof", "error", "closed"}
    PROVE  /\ OpTypes'
           /\ at'[e] = "idle"
           /\ out'[e] = NoRecord
           /\ reported' \in [Ends -> {"nothing", "eof", "error", "closed"}]
           /\ reported'[e] = IF reported[e] = "nothing" THEN what ELSE reported[e]
           /\ \A d \in Ends \ {e} : /\ at'[d] = at[d]
                                    /\ out'[d] = out[d]
                                    /\ reported'[d] = reported[d]
<1>1. /\ at' \in [Ends -> {"idle"} \cup Sending \cup Receiving]
      /\ at'[e] = "idle"
      /\ \A d \in Ends \ {e} : at'[d] = at[d]
  BY DEF Finish, Goto, TypeOK, OpTypes
<1>2. /\ out' \in [Ends -> Records \cup {NoRecord}]
      /\ out'[e] = NoRecord
      /\ \A d \in Ends \ {e} : out'[d] = out[d]
  BY DEF Finish, TypeOK, OpTypes
<1>3. left' \in [Ends -> Nat]
  BY DEF Finish, TypeOK, OpTypes
<1>4. \A d \in Ends : at'[d] \in Sending <=> out'[d] # NoRecord
  BY <1>1, <1>2 DEF TypeOK, OpTypes, Sending
<1>5. /\ reported' \in [Ends -> {"nothing", "eof", "error", "closed"}]
      /\ reported'[e] = IF reported[e] = "nothing" THEN what ELSE reported[e]
      /\ \A d \in Ends \ {e} : reported'[d] = reported[d]
  BY DEF Finish, TypeOK, PastTypes
<1> QED
  BY <1>1, <1>2, <1>3, <1>4, <1>5 DEF OpTypes

LEMMA SwitchWriteKeyEffect ==
    ASSUME TypeOK, NEW e \in Ends, SwitchWriteKey(e)
    PROVE  /\ writeState' \in [Ends -> States]
           /\ secrets' \in [Ends -> [Ends -> Nat]]
           /\ writeState'[e] = [gen |-> secrets[e][e] + 1, seq |-> 0]
           /\ secrets'[e][e] = secrets[e][e] + 1
           /\ secrets'[e][Peer(e)] = secrets[e][Peer(e)]
           /\ \A d \in Ends \ {e} : /\ writeState'[d] = writeState[d]
                                    /\ secrets'[d] = secrets[d]
BY PeerType
DEF SwitchWriteKey, NextGeneration, KeyedBy, TypeOK, KeyTypes, States

LEMMA SwitchReadKeyEffect ==
    ASSUME TypeOK, NEW e \in Ends, SwitchReadKey(e)
    PROVE  /\ readState' \in [Ends -> States]
           /\ secrets' \in [Ends -> [Ends -> Nat]]
           /\ readState'[e] = [gen |-> secrets[e][Peer(e)] + 1, seq |-> 0]
           /\ secrets'[e][Peer(e)] = secrets[e][Peer(e)] + 1
           /\ secrets'[e][e] = secrets[e][e]
           /\ \A d \in Ends \ {e} : /\ readState'[d] = readState[d]
                                    /\ secrets'[d] = secrets[d]
BY PeerType
DEF SwitchReadKey, NextGeneration, KeyedBy, TypeOK, KeyTypes, States

\* An end that seals a record goes on to send it.
LEMMA SealTypes ==
    ASSUME TypeOK, NEW e \in Ends, NEW kind \in Kinds, Seal(e, kind),
           at'[e] \in Sending,
           at' \in [Ends -> {"idle"} \cup Sending \cup Receiving],
           \A d \in Ends \ {e} : at'[d] = at[d],
           left' \in [Ends -> Nat]
    PROVE  OpTypes'
<1>1. /\ out' \in [Ends -> Records \cup {NoRecord}]
      /\ out'[e] \in Records
      /\ \A d \in Ends \ {e} : out'[d] = out[d]
  BY SealEffect
<1>2. \A r \in Records : r # NoRecord
  BY DEF Records, NoRecord, Kinds
<1>3. \A d \in Ends : at'[d] \in Sending <=> out'[d] # NoRecord
  BY <1>1, <1>2 DEF TypeOK, OpTypes
<1> QED
  BY <1>1, <1>3 DEF OpTypes

-----------------------------------------------------------------------------
(***************************************************************************)
(* Type correctness.                                                       *)
(***************************************************************************)

LEMMA InitTypes == Init => TypeOK
<1> SUFFICES ASSUME Init PROVE TypeOK
  OBVIOUS
<1>1. PICK n \in 0..MaxTickets :
        /\ writeState = [e \in Ends |->
                           [gen |-> 0, seq |-> IF e = Server THEN n ELSE 0]]
        /\ wire = [e \in Ends |->
                      [i \in 1..(IF e = Server THEN n ELSE 0) |->
                          [kind |-> "new_session_ticket", gen |-> 0,
                           seq |-> i - 1, number |-> 0, intact |-> TRUE]]]
        /\ used = [e \in Ends |->
                      IF e = Server THEN {<<0, i - 1>> : i \in 1..n} ELSE {}]
  BY DEF Init
<1>2. n \in Nat
  BY BoundsAssumption
<1>3. KeyTypes
  BY <1>1, <1>2 DEF Init, KeyTypes, States
<1>4. NetTypes
  <2>1. ASSUME NEW e \in Ends PROVE wire[e] \in Seq(Records)
    <3> DEFINE k == IF e = Server THEN n ELSE 0
    <3>1. k \in Nat /\ wire[e] = [i \in 1..k |->
                          [kind |-> "new_session_ticket", gen |-> 0,
                           seq |-> i - 1, number |-> 0, intact |-> TRUE]]
      BY <1>1, <1>2
    <3>2. wire[e] \in [1..k -> Records]
      BY <3>1 DEF Records, Kinds
    <3> QED
      BY <3>1, <3>2
  <2>2. wire \in [Ends -> Seq(Records)]
    BY <1>1, <2>1
  <2>3. broken = FALSE /\ faults = 0
    BY DEF Init
  <2> QED
    BY <2>2, <2>3 DEF NetTypes
<1>5. PastTypes
  BY <1>1, <1>2 DEF Init, PastTypes
<1> QED
  BY <1>3, <1>4, <1>5 DEF Init, TypeOK, EndTypes, OpTypes, AppTypes, Sending

LEMMA WriteTypes ==
    ASSUME TypeOK, NEW e \in Ends, Write(e) PROVE TypeOK'
<1>1. KeyTypes'
  BY SealEffect DEF TypeOK, Write, KeyTypes, Kinds, KeyUpdates
<1>2. OpTypes'
  BY SealEffect, SealTypes, GotoEffect
  DEF TypeOK, Write, OpTypes, Sending, Receiving, Salvaging, Kinds, KeyUpdates
<1>3. AppTypes'
  BY SealEffect DEF TypeOK, Write, AppTypes, Kinds, KeyUpdates
<1>4. PastTypes'
  BY SealEffect DEF TypeOK, Write, PastTypes, Kinds, KeyUpdates
<1>5. EndTypes' /\ NetTypes'
  BY DEF TypeOK, Write, endVars, EndTypes, netVars, NetTypes
<1> QED
  BY <1>1, <1>2, <1>3, <1>4, <1>5 DEF TypeOK

LEMMA WriteClosedTypes ==
    ASSUME TypeOK, NEW e \in Ends, WriteClosed(e) PROVE TypeOK'
<1>1. KeyTypes'
  BY ShutdownEffect, SettingsAssumption DEF TypeOK, WriteClosed, KeyTypes
<1>2. EndTypes'
  BY ShutdownEffect, EndSessionEffect, SettingsAssumption
  DEF TypeOK, WriteClosed, EndTypes
<1>3. OpTypes'
  BY FinishEffect
  DEF TypeOK, WriteClosed, OpTypes, Sending, Receiving, Salvaging
<1>4. PastTypes'
  BY FinishEffect DEF TypeOK, WriteClosed, PastTypes
<1>5. NetTypes' /\ AppTypes'
  BY DEF TypeOK, WriteClosed, netVars, NetTypes, appVars, AppTypes
<1> QED
  BY <1>1, <1>2, <1>3, <1>4, <1>5 DEF TypeOK

LEMMA ReadTypes ==
    ASSUME TypeOK, NEW e \in Ends, Read(e) PROVE TypeOK'
<1>1. OpTypes'
  BY GotoEffect DEF TypeOK, Read, OpTypes, Sending, Receiving, Salvaging
<1>2. KeyTypes' /\ EndTypes' /\ NetTypes' /\ AppTypes' /\ PastTypes'
  BY
  DEF TypeOK, Read, keyVars, KeyTypes, endVars, EndTypes, netVars, NetTypes,
      appVars, AppTypes, pastVars, PastTypes
<1> QED
  BY <1>1, <1>2 DEF TypeOK

LEMMA ReadClosedTypes ==
    ASSUME TypeOK, NEW e \in Ends, ReadClosed(e) PROVE TypeOK'
<1>1. OpTypes'
  BY FinishEffect
  DEF TypeOK, ReadClosed, OpTypes, Sending, Receiving, Salvaging
<1>2. PastTypes'
  BY FinishEffect DEF TypeOK, ReadClosed, PastTypes
<1>3. KeyTypes' /\ EndTypes' /\ NetTypes' /\ AppTypes'
  BY
  DEF TypeOK, ReadClosed, keyVars, KeyTypes, endVars, EndTypes, netVars,
      NetTypes, appVars, AppTypes
<1> QED
  BY <1>1, <1>2, <1>3 DEF TypeOK

LEMMA SendKeyUpdateTypes ==
    ASSUME TypeOK, NEW e \in Ends, SendKeyUpdate(e) PROVE TypeOK'
<1>1. KeyTypes'
  BY SealEffect DEF TypeOK, SendKeyUpdate, KeyTypes, Kinds, KeyUpdates
<1>2. OpTypes'
  BY SealEffect, SealTypes, GotoEffect
  DEF TypeOK, SendKeyUpdate, OpTypes, Sending, Receiving, Salvaging, Kinds,
      KeyUpdates
<1>3. AppTypes'
  <2>1. PICK kind \in KeyUpdates :
            /\ Seal(e, kind)
            /\ requests' = IF kind = "update_requested"
                           THEN [requests EXCEPT ![e] = @ + 1] ELSE requests
    BY DEF SendKeyUpdate
  <2>2. written' \in [Ends -> Nat]
    BY <2>1, SealEffect DEF Kinds, KeyUpdates
  <2>3. requests' \in [Ends -> Nat] /\ updates' \in [Ends -> Nat]
    BY <2>1 DEF SendKeyUpdate, TypeOK, AppTypes
  <2> QED
    BY <2>2, <2>3 DEF SendKeyUpdate, TypeOK, AppTypes
<1>4. PastTypes'
  BY SealEffect DEF TypeOK, SendKeyUpdate, PastTypes, Kinds, KeyUpdates
<1>5. EndTypes' /\ NetTypes'
  BY DEF TypeOK, SendKeyUpdate, endVars, EndTypes, netVars, NetTypes
<1> QED
  BY <1>1, <1>2, <1>3, <1>4, <1>5 DEF TypeOK

LEMMA CloseTypes ==
    ASSUME TypeOK, NEW e \in Ends, Close(e) PROVE TypeOK'
<1>1. KeyTypes'
  BY SealEffect DEF TypeOK, Close, KeyTypes, Kinds, KeyUpdates
<1>2. OpTypes'
  BY SealEffect, SealTypes, GotoEffect
  DEF TypeOK, Close, OpTypes, Sending, Receiving, Salvaging, Kinds, KeyUpdates
<1>3. AppTypes'
  BY SealEffect DEF TypeOK, Close, AppTypes, Kinds, KeyUpdates
<1>4. PastTypes'
  BY SealEffect DEF TypeOK, Close, PastTypes, Kinds, KeyUpdates
<1>5. EndTypes' /\ NetTypes'
  BY DEF TypeOK, Close, endVars, EndTypes, netVars, NetTypes
<1> QED
  BY <1>1, <1>2, <1>3, <1>4, <1>5 DEF TypeOK

LEMMA FragmentSentTypes ==
    ASSUME TypeOK, NEW e \in Ends, FragmentSent(e) PROVE TypeOK'
<1>1. KeyTypes'
  BY SealEffect DEF TypeOK, FragmentSent, KeyTypes, Kinds, KeyUpdates
<1>2. OpTypes'
  BY SealEffect, SealTypes, GotoEffect
  DEF TypeOK, FragmentSent, OpTypes, Sending, Receiving, Salvaging, Kinds,
      KeyUpdates
<1>3. NetTypes'
  BY PutEffect DEF TypeOK, FragmentSent, NetTypes, Sending
<1>4. AppTypes'
  BY SealEffect DEF TypeOK, FragmentSent, AppTypes, Kinds, KeyUpdates
<1>5. PastTypes'
  BY SealEffect DEF TypeOK, FragmentSent, PastTypes, Kinds, KeyUpdates
<1>6. EndTypes'
  BY DEF TypeOK, FragmentSent, endVars, EndTypes
<1> QED
  BY <1>1, <1>2, <1>3, <1>4, <1>5, <1>6 DEF TypeOK

LEMMA WriteDoneTypes ==
    ASSUME TypeOK, NEW e \in Ends, WriteDone(e) PROVE TypeOK'
<1>1. OpTypes'
  BY FinishEffect DEF TypeOK, WriteDone, OpTypes, Sending, Receiving, Salvaging
<1>2. NetTypes'
  BY PutEffect DEF TypeOK, WriteDone, NetTypes, Sending
<1>3. PastTypes'
  BY FinishEffect DEF TypeOK, WriteDone, PastTypes
<1>4. KeyTypes' /\ EndTypes' /\ AppTypes'
  BY
  DEF TypeOK, WriteDone, keyVars, KeyTypes, endVars, EndTypes, appVars,
      AppTypes
<1> QED
  BY <1>1, <1>2, <1>3, <1>4 DEF TypeOK

LEMMA KeyUpdateSentTypes ==
    ASSUME TypeOK, NEW e \in Ends, KeyUpdateSent(e) PROVE TypeOK'
<1>1. KeyTypes'
  BY SwitchWriteKeyEffect DEF TypeOK, KeyUpdateSent, KeyTypes
<1>2. OpTypes'
  BY GotoEffect
  DEF TypeOK, KeyUpdateSent, OpTypes, Sending, Receiving, Salvaging
<1>3. NetTypes'
  BY PutEffect DEF TypeOK, KeyUpdateSent, NetTypes, Sending
<1>4. EndTypes' /\ AppTypes' /\ PastTypes'
  BY
  DEF TypeOK, KeyUpdateSent, endVars, EndTypes, appVars, AppTypes, pastVars,
      PastTypes
<1> QED
  BY <1>1, <1>2, <1>3, <1>4 DEF TypeOK

LEMMA AnswerSentTypes ==
    ASSUME TypeOK, NEW e \in Ends, AnswerSent(e) PROVE TypeOK'
<1>1. KeyTypes'
  BY ShutdownEffect DEF TypeOK, AnswerSent, KeyTypes
<1>2. EndTypes'
  BY ShutdownEffect, EndSessionEffect DEF TypeOK, AnswerSent, EndTypes
<1>3. OpTypes'
  BY FinishEffect
  DEF TypeOK, AnswerSent, OpTypes, Sending, Receiving, Salvaging
<1>4. NetTypes'
  BY PutEffect DEF TypeOK, AnswerSent, NetTypes, Sending
<1>5. PastTypes'
  BY FinishEffect DEF TypeOK, AnswerSent, PastTypes
<1>6. AppTypes'
  BY DEF TypeOK, AnswerSent, appVars, AppTypes
<1> QED
  BY <1>1, <1>2, <1>3, <1>4, <1>5, <1>6 DEF TypeOK

LEMMA ErrorSentTypes ==
    ASSUME TypeOK, NEW e \in Ends, ErrorSent(e) PROVE TypeOK'
<1>1. KeyTypes'
  BY ShutdownEffect DEF TypeOK, ErrorSent, KeyTypes
<1>2. EndTypes'
  BY ShutdownEffect, EndSessionEffect DEF TypeOK, ErrorSent, EndTypes
<1>3. OpTypes'
  BY FinishEffect DEF TypeOK, ErrorSent, OpTypes, Sending, Receiving, Salvaging
<1>4. NetTypes'
  BY PutEffect DEF TypeOK, ErrorSent, NetTypes, Sending
<1>5. PastTypes'
  BY FinishEffect DEF TypeOK, ErrorSent, PastTypes
<1>6. AppTypes'
  BY DEF TypeOK, ErrorSent, appVars, AppTypes
<1> QED
  BY <1>1, <1>2, <1>3, <1>4, <1>5, <1>6 DEF TypeOK

LEMMA CloseSentTypes ==
    ASSUME TypeOK, NEW e \in Ends, CloseSent(e) PROVE TypeOK'
<1>1. KeyTypes'
  BY ShutdownEffect DEF TypeOK, CloseSent, KeyTypes
<1>2. EndTypes'
  BY ShutdownEffect, EndSessionEffect DEF TypeOK, CloseSent, EndTypes
<1>3. OpTypes'
  BY FinishEffect DEF TypeOK, CloseSent, OpTypes, Sending, Receiving, Salvaging
<1>4. NetTypes'
  BY PutEffect DEF TypeOK, CloseSent, NetTypes, Sending
<1>5. PastTypes'
  BY FinishEffect DEF TypeOK, CloseSent, PastTypes
<1>6. AppTypes'
  BY DEF TypeOK, CloseSent, appVars, AppTypes
<1> QED
  BY <1>1, <1>2, <1>3, <1>4, <1>5, <1>6 DEF TypeOK

LEMMA CloseSentAwaitingTypes ==
    ASSUME TypeOK, NEW e \in Ends, CloseSentAwaiting(e) PROVE TypeOK'
<1>1. OpTypes'
  BY GotoEffect
  DEF TypeOK, CloseSentAwaiting, OpTypes, Sending, Receiving, Salvaging
<1>2. NetTypes'
  BY PutEffect DEF TypeOK, CloseSentAwaiting, NetTypes, Sending
<1>3. KeyTypes' /\ EndTypes' /\ AppTypes' /\ PastTypes'
  BY
  DEF TypeOK, CloseSentAwaiting, keyVars, KeyTypes, endVars, EndTypes,
      appVars, AppTypes, pastVars, PastTypes
<1> QED
  BY <1>1, <1>2, <1>3 DEF TypeOK

LEMMA WriteFailsTypes ==
    ASSUME TypeOK, NEW e \in Ends, WriteFails(e) PROVE TypeOK'
<1>1. KeyTypes'
  BY ShutdownEffect, SettingsAssumption DEF TypeOK, WriteFails, KeyTypes
<1>2. EndTypes'
  BY ShutdownEffect, EndSessionEffect, SettingsAssumption
  DEF TypeOK, WriteFails, EndTypes
<1>3. OpTypes'
  BY FinishEffect
  DEF TypeOK, WriteFails, OpTypes, Sending, Receiving, Salvaging
<1>4. PastTypes'
  BY FinishEffect DEF TypeOK, WriteFails, PastTypes
<1>5. NetTypes' /\ AppTypes'
  BY DEF TypeOK, WriteFails, netVars, NetTypes, appVars, AppTypes
<1> QED
  BY <1>1, <1>2, <1>3, <1>4, <1>5 DEF TypeOK

LEMMA KeyUpdateFailsTypes ==
    ASSUME TypeOK, NEW e \in Ends, KeyUpdateFails(e) PROVE TypeOK'
<1>1. OpTypes'
  BY GotoEffect
  DEF TypeOK, KeyUpdateFails, OpTypes, Sending, Receiving, Salvaging
<1>2. KeyTypes' /\ EndTypes' /\ NetTypes' /\ AppTypes' /\ PastTypes'
  BY
  DEF TypeOK, KeyUpdateFails, keyVars, KeyTypes, endVars, EndTypes, netVars,
      NetTypes, appVars, AppTypes, pastVars, PastTypes
<1> QED
  BY <1>1, <1>2 DEF TypeOK

LEMMA ErrorFailsTypes ==
    ASSUME TypeOK, NEW e \in Ends, ErrorFails(e) PROVE TypeOK'
<1>1. KeyTypes'
  BY ShutdownEffect DEF TypeOK, ErrorFails, KeyTypes
<1>2. EndTypes'
  BY ShutdownEffect, EndSessionEffect DEF TypeOK, ErrorFails, EndTypes
<1>3. OpTypes'
  BY FinishEffect
  DEF TypeOK, ErrorFails, OpTypes, Sending, Receiving, Salvaging
<1>4. PastTypes'
  BY FinishEffect DEF TypeOK, ErrorFails, PastTypes
<1>5. NetTypes' /\ AppTypes'
  BY DEF TypeOK, ErrorFails, netVars, NetTypes, appVars, AppTypes
<1> QED
  BY <1>1, <1>2, <1>3, <1>4, <1>5 DEF TypeOK

LEMMA CloseFailsTypes ==
    ASSUME TypeOK, NEW e \in Ends, CloseFails(e) PROVE TypeOK'
<1>1. KeyTypes'
  BY ShutdownEffect DEF TypeOK, CloseFails, KeyTypes
<1>2. EndTypes'
  BY ShutdownEffect, EndSessionEffect DEF TypeOK, CloseFails, EndTypes
<1>3. OpTypes'
  BY FinishEffect
  DEF TypeOK, CloseFails, OpTypes, Sending, Receiving, Salvaging
<1>4. PastTypes'
  BY FinishEffect DEF TypeOK, CloseFails, PastTypes
<1>5. NetTypes' /\ AppTypes'
  BY DEF TypeOK, CloseFails, netVars, NetTypes, appVars, AppTypes
<1> QED
  BY <1>1, <1>2, <1>3, <1>4, <1>5 DEF TypeOK

LEMMA ReadDataTypes ==
    ASSUME TypeOK, NEW e \in Ends, ReadData(e) PROVE TypeOK'
<1>1. KeyTypes'
  BY CountRecordEffect DEF TypeOK, ReadData, KeyTypes
<1>2. OpTypes'
  BY FinishEffect DEF TypeOK, ReadData, OpTypes, Sending, Receiving, Salvaging
<1>3. NetTypes'
  BY TakeEffect, PeerType DEF TypeOK, ReadData, NetTypes, Arrives
<1>4. AppTypes'
  BY TakeEffect DEF TypeOK, ReadData, AppTypes, Arrives, Records
<1>5. PastTypes'
  BY FinishEffect DEF TypeOK, ReadData, PastTypes
<1>6. EndTypes'
  BY DEF TypeOK, ReadData, endVars, EndTypes
<1> QED
  BY <1>1, <1>2, <1>3, <1>4, <1>5, <1>6 DEF TypeOK

LEMMA ReadTicketTypes ==
    ASSUME TypeOK, NEW e \in Ends, ReadTicket(e) PROVE TypeOK'
<1>1. KeyTypes'
  BY CountRecordEffect DEF TypeOK, ReadTicket, KeyTypes
<1>2. NetTypes'
  BY TakeEffect, PeerType DEF TypeOK, ReadTicket, NetTypes, Arrives
<1>3. EndTypes' /\ OpTypes' /\ AppTypes' /\ PastTypes'
  BY
  DEF TypeOK, ReadTicket, endVars, EndTypes, opVars, OpTypes, appVars,
      AppTypes, pastVars, PastTypes
<1> QED
  BY <1>1, <1>2, <1>3 DEF TypeOK

LEMMA ReadKeyUpdateTypes ==
    ASSUME TypeOK, NEW e \in Ends, ReadKeyUpdate(e) PROVE TypeOK'
<1>1. KeyTypes'
  BY SwitchReadKeyEffect DEF TypeOK, ReadKeyUpdate, KeyTypes
<1>2. NetTypes'
  BY TakeEffect, PeerType DEF TypeOK, ReadKeyUpdate, NetTypes, Arrives
<1>3. EndTypes' /\ OpTypes' /\ AppTypes' /\ PastTypes'
  BY
  DEF TypeOK, ReadKeyUpdate, endVars, EndTypes, opVars, OpTypes, appVars,
      AppTypes, pastVars, PastTypes
<1> QED
  BY <1>1, <1>2, <1>3 DEF TypeOK

LEMMA ReadKeyUpdateRequestTypes ==
    ASSUME TypeOK, NEW e \in Ends, ReadKeyUpdateRequest(e) PROVE TypeOK'
<1>1. KeyTypes'
  BY SealEffect, SwitchReadKeyEffect
  DEF TypeOK, ReadKeyUpdateRequest, KeyTypes, Kinds, KeyUpdates
<1>2. OpTypes'
  BY SealEffect, SealTypes, GotoEffect
  DEF TypeOK, ReadKeyUpdateRequest, OpTypes, Sending, Receiving, Salvaging,
      Kinds, KeyUpdates
<1>3. NetTypes'
  BY TakeEffect, PeerType DEF TypeOK, ReadKeyUpdateRequest, NetTypes, Arrives
<1>4. AppTypes'
  BY SealEffect, TakeEffect
  DEF TypeOK, ReadKeyUpdateRequest, AppTypes, Kinds, KeyUpdates
<1>5. PastTypes'
  BY SealEffect DEF TypeOK, ReadKeyUpdateRequest, PastTypes, Kinds, KeyUpdates
<1>6. EndTypes'
  BY DEF TypeOK, ReadKeyUpdateRequest, endVars, EndTypes
<1> QED
  BY <1>1, <1>2, <1>3, <1>4, <1>5, <1>6 DEF TypeOK

LEMMA ReadCloseNotifyTypes ==
    ASSUME TypeOK, NEW e \in Ends, ReadCloseNotify(e) PROVE TypeOK'
<1>1. KeyTypes'
  BY SealEffect, CountRecordEffect
  DEF TypeOK, ReadCloseNotify, KeyTypes, Kinds, KeyUpdates
<1>2. OpTypes'
  BY SealEffect, SealTypes, GotoEffect
  DEF TypeOK, ReadCloseNotify, OpTypes, Sending, Receiving, Salvaging, Kinds,
      KeyUpdates
<1>3. NetTypes'
  BY TakeEffect, PeerType DEF TypeOK, ReadCloseNotify, NetTypes, Arrives
<1>4. AppTypes'
  BY SealEffect, TakeEffect
  DEF TypeOK, ReadCloseNotify, AppTypes, Kinds, KeyUpdates
<1>5. PastTypes'
  BY SealEffect DEF TypeOK, ReadCloseNotify, PastTypes, Kinds, KeyUpdates
<1>6. EndTypes'
  BY DEF TypeOK, ReadCloseNotify, endVars, EndTypes
<1> QED
  BY <1>1, <1>2, <1>3, <1>4, <1>5, <1>6 DEF TypeOK

LEMMA GetFatalTypes ==
    ASSUME TypeOK, NEW e \in Ends, GetFatal(e) PROVE TypeOK'
<1>1. KeyTypes'
  BY ShutdownEffect DEF TypeOK, GetFatal, KeyTypes
<1>2. EndTypes'
  BY ShutdownEffect, EndSessionEffect DEF TypeOK, GetFatal, EndTypes
<1>3. OpTypes'
  BY FinishEffect DEF TypeOK, GetFatal, OpTypes, Sending, Receiving, Salvaging
<1>4. NetTypes'
  BY TakeEffect, PeerType DEF TypeOK, GetFatal, NetTypes, Arrives
<1>5. PastTypes'
  BY FinishEffect DEF TypeOK, GetFatal, PastTypes
<1>6. AppTypes'
  BY DEF TypeOK, GetFatal, appVars, AppTypes
<1> QED
  BY <1>1, <1>2, <1>3, <1>4, <1>5, <1>6 DEF TypeOK

LEMMA RefuseTypes ==
    ASSUME TypeOK, NEW e \in Ends, Refuse(e) PROVE TypeOK'
<1>1. KeyTypes'
  BY SealEffect, CountRecordEffect
  DEF TypeOK, Refuse, KeyTypes, Kinds, KeyUpdates
<1>2. OpTypes'
  BY SealEffect, SealTypes, GotoEffect
  DEF TypeOK, Refuse, OpTypes, Sending, Receiving, Salvaging, Kinds,
      KeyUpdates
<1>3. NetTypes'
  BY TakeEffect, PeerType DEF TypeOK, Refuse, NetTypes
<1>4. AppTypes'
  BY SealEffect DEF TypeOK, Refuse, AppTypes, Kinds, KeyUpdates
<1>5. PastTypes'
  BY SealEffect DEF TypeOK, Refuse, PastTypes, Kinds, KeyUpdates
<1>6. EndTypes'
  BY DEF TypeOK, Refuse, endVars, EndTypes
<1> QED
  BY <1>1, <1>2, <1>3, <1>4, <1>5, <1>6 DEF TypeOK

LEMMA ReadEofTypes ==
    ASSUME TypeOK, NEW e \in Ends, ReadEof(e) PROVE TypeOK'
<1>1. KeyTypes'
  BY ShutdownEffect, SettingsAssumption DEF TypeOK, ReadEof, KeyTypes
<1>2. EndTypes'
  BY ShutdownEffect, EndSessionEffect, SettingsAssumption
  DEF TypeOK, ReadEof, EndTypes
<1>3. OpTypes'
  BY FinishEffect DEF TypeOK, ReadEof, OpTypes, Sending, Receiving, Salvaging
<1>4. PastTypes'
  BY FinishEffect DEF TypeOK, ReadEof, PastTypes
<1>5. NetTypes' /\ AppTypes'
  BY DEF TypeOK, ReadEof, netVars, NetTypes, appVars, AppTypes
<1> QED
  BY <1>1, <1>2, <1>3, <1>4, <1>5 DEF TypeOK

LEMMA ReadResetTypes ==
    ASSUME TypeOK, NEW e \in Ends, ReadReset(e) PROVE TypeOK'
<1>1. KeyTypes'
  BY ShutdownEffect DEF TypeOK, ReadReset, KeyTypes
<1>2. EndTypes'
  BY ShutdownEffect, EndSessionEffect DEF TypeOK, ReadReset, EndTypes
<1>3. OpTypes'
  BY FinishEffect DEF TypeOK, ReadReset, OpTypes, Sending, Receiving, Salvaging
<1>4. PastTypes'
  BY FinishEffect DEF TypeOK, ReadReset, PastTypes
<1>5. NetTypes' /\ AppTypes'
  BY DEF TypeOK, ReadReset, netVars, NetTypes, appVars, AppTypes
<1> QED
  BY <1>1, <1>2, <1>3, <1>4, <1>5 DEF TypeOK

LEMMA AwaitDataTypes ==
    ASSUME TypeOK, NEW e \in Ends, AwaitData(e) PROVE TypeOK'
<1>1. KeyTypes'
  BY CountRecordEffect DEF TypeOK, AwaitData, KeyTypes
<1>2. NetTypes'
  BY TakeEffect, PeerType DEF TypeOK, AwaitData, NetTypes, Arrives
<1>3. EndTypes' /\ OpTypes' /\ AppTypes' /\ PastTypes'
  BY
  DEF TypeOK, AwaitData, endVars, EndTypes, opVars, OpTypes, appVars,
      AppTypes, pastVars, PastTypes
<1> QED
  BY <1>1, <1>2, <1>3 DEF TypeOK

LEMMA AwaitCloseNotifyTypes ==
    ASSUME TypeOK, NEW e \in Ends, AwaitCloseNotify(e) PROVE TypeOK'
<1>1. KeyTypes'
  BY ShutdownEffect DEF TypeOK, AwaitCloseNotify, KeyTypes
<1>2. EndTypes'
  BY ShutdownEffect, EndSessionEffect DEF TypeOK, AwaitCloseNotify, EndTypes
<1>3. OpTypes'
  BY FinishEffect
  DEF TypeOK, AwaitCloseNotify, OpTypes, Sending, Receiving, Salvaging
<1>4. NetTypes'
  BY TakeEffect, PeerType DEF TypeOK, AwaitCloseNotify, NetTypes, Arrives
<1>5. PastTypes'
  BY FinishEffect DEF TypeOK, AwaitCloseNotify, PastTypes
<1>6. AppTypes'
  BY DEF TypeOK, AwaitCloseNotify, appVars, AppTypes
<1> QED
  BY <1>1, <1>2, <1>3, <1>4, <1>5, <1>6 DEF TypeOK

LEMMA AwaitHandshakeTypes ==
    ASSUME TypeOK, NEW e \in Ends, AwaitHandshake(e) PROVE TypeOK'
<1>1. KeyTypes'
  BY SealEffect, CountRecordEffect
  DEF TypeOK, AwaitHandshake, KeyTypes, Kinds, KeyUpdates
<1>2. OpTypes'
  BY SealEffect, SealTypes, GotoEffect
  DEF TypeOK, AwaitHandshake, OpTypes, Sending, Receiving, Salvaging, Kinds,
      KeyUpdates
<1>3. NetTypes'
  BY TakeEffect, PeerType DEF TypeOK, AwaitHandshake, NetTypes, Arrives
<1>4. AppTypes'
  BY SealEffect, TakeEffect
  DEF TypeOK, AwaitHandshake, AppTypes, Kinds, KeyUpdates
<1>5. PastTypes'
  BY SealEffect DEF TypeOK, AwaitHandshake, PastTypes, Kinds, KeyUpdates
<1>6. EndTypes'
  BY DEF TypeOK, AwaitHandshake, endVars, EndTypes
<1> QED
  BY <1>1, <1>2, <1>3, <1>4, <1>5, <1>6 DEF TypeOK

LEMMA AwaitEndTypes ==
    ASSUME TypeOK, NEW e \in Ends, AwaitEnd(e) PROVE TypeOK'
<1>1. KeyTypes'
  BY ShutdownEffect DEF TypeOK, AwaitEnd, KeyTypes
<1>2. EndTypes'
  BY ShutdownEffect, EndSessionEffect DEF TypeOK, AwaitEnd, EndTypes
<1>3. OpTypes'
  BY FinishEffect DEF TypeOK, AwaitEnd, OpTypes, Sending, Receiving, Salvaging
<1>4. PastTypes'
  BY FinishEffect DEF TypeOK, AwaitEnd, PastTypes
<1>5. NetTypes' /\ AppTypes'
  BY DEF TypeOK, AwaitEnd, netVars, NetTypes, appVars, AppTypes
<1> QED
  BY <1>1, <1>2, <1>3, <1>4, <1>5 DEF TypeOK

LEMMA SalvageOtherTypes ==
    ASSUME TypeOK, NEW e \in Ends, SalvageOther(e) PROVE TypeOK'
<1>1. KeyTypes'
  <2>1. NoKeys \in States
    BY DEF NoKeys, States
  <2> QED
    BY <2>1, SwitchWriteKeyEffect DEF TypeOK, SalvageOther, KeyTypes
<1>2. EndTypes'
  BY EndSessionEffect DEF TypeOK, SalvageOther, EndTypes
<1>3. OpTypes'
  BY FinishEffect
  DEF TypeOK, SalvageOther, OpTypes, Sending, Receiving, Salvaging
<1>4. NetTypes'
  BY TakeEffect, PeerType DEF TypeOK, SalvageOther, NetTypes, Arrives
<1>5. PastTypes'
  BY FinishEffect DEF TypeOK, SalvageOther, PastTypes
<1>6. AppTypes'
  BY DEF TypeOK, SalvageOther, appVars, AppTypes
<1> QED
  BY <1>1, <1>2, <1>3, <1>4, <1>5, <1>6 DEF TypeOK

LEMMA SalvageAlertTypes ==
    ASSUME TypeOK, NEW e \in Ends, SalvageAlert(e) PROVE TypeOK'
<1>1. KeyTypes'
  BY ShutdownEffect DEF TypeOK, SalvageAlert, KeyTypes
<1>2. EndTypes'
  BY ShutdownEffect, EndSessionEffect DEF TypeOK, SalvageAlert, EndTypes
<1>3. OpTypes'
  BY FinishEffect
  DEF TypeOK, SalvageAlert, OpTypes, Sending, Receiving, Salvaging
<1>4. NetTypes'
  BY TakeEffect, PeerType DEF TypeOK, SalvageAlert, NetTypes, Arrives
<1>5. PastTypes'
  BY FinishEffect DEF TypeOK, SalvageAlert, PastTypes
<1>6. AppTypes'
  BY DEF TypeOK, SalvageAlert, appVars, AppTypes
<1> QED
  BY <1>1, <1>2, <1>3, <1>4, <1>5, <1>6 DEF TypeOK

LEMMA SalvageRefusedReadingTypes ==
    ASSUME TypeOK, NEW e \in Ends, SalvageRefusedReading(e) PROVE TypeOK'
<1>1. KeyTypes'
  BY ShutdownEffect DEF TypeOK, SalvageRefusedReading, KeyTypes
<1>2. EndTypes'
  BY ShutdownEffect, EndSessionEffect
  DEF TypeOK, SalvageRefusedReading, EndTypes
<1>3. OpTypes'
  BY FinishEffect
  DEF TypeOK, SalvageRefusedReading, OpTypes, Sending, Receiving, Salvaging
<1>4. NetTypes'
  BY TakeEffect, PeerType DEF TypeOK, SalvageRefusedReading, NetTypes
<1>5. PastTypes'
  BY FinishEffect DEF TypeOK, SalvageRefusedReading, PastTypes
<1>6. AppTypes'
  BY DEF TypeOK, SalvageRefusedReading, appVars, AppTypes
<1> QED
  BY <1>1, <1>2, <1>3, <1>4, <1>5, <1>6 DEF TypeOK

LEMMA SalvageRefusedUpdatingTypes ==
    ASSUME TypeOK, NEW e \in Ends, SalvageRefusedUpdating(e) PROVE TypeOK'
<1>1. KeyTypes'
  <2>1. writeState' \in [Ends -> States]
    <3>1. writeState \in [Ends -> States]
      BY DEF TypeOK, KeyTypes
    <3>2. writeState' = [writeState EXCEPT ![e].seq = @ + 1]
      BY DEF SalvageRefusedUpdating
    <3> QED
      BY <3>1, <3>2 DEF States
  <2> QED
    BY <2>1, CountRecordEffect DEF TypeOK, SalvageRefusedUpdating, KeyTypes
<1>2. OpTypes'
  BY FinishEffect
  DEF TypeOK, SalvageRefusedUpdating, OpTypes, Sending, Receiving, Salvaging
<1>3. NetTypes'
  BY TakeEffect, PeerType DEF TypeOK, SalvageRefusedUpdating, NetTypes
<1>4. PastTypes'
  <2>1. writeState[e] \in States
    BY DEF TypeOK, KeyTypes
  <2>2. used' \in [Ends -> SUBSET ((Nat \cup {Plain}) \X Nat)]
    BY <2>1 DEF SalvageRefusedUpdating, TypeOK, PastTypes, States
  <2> QED
    BY <2>2, FinishEffect DEF TypeOK, SalvageRefusedUpdating, PastTypes
<1>5. EndTypes' /\ AppTypes'
  BY DEF TypeOK, SalvageRefusedUpdating, endVars, EndTypes, appVars, AppTypes
<1> QED
  BY <1>1, <1>2, <1>3, <1>4, <1>5 DEF TypeOK

LEMMA SalvageNothingTypes ==
    ASSUME TypeOK, NEW e \in Ends, SalvageNothing(e) PROVE TypeOK'
<1>1. OpTypes'
  BY FinishEffect
  DEF TypeOK, SalvageNothing, OpTypes, Sending, Receiving, Salvaging
<1>2. PastTypes'
  BY FinishEffect DEF TypeOK, SalvageNothing, PastTypes
<1>3. KeyTypes' /\ EndTypes' /\ NetTypes' /\ AppTypes'
  BY
  DEF TypeOK, SalvageNothing, keyVars, KeyTypes, endVars, EndTypes, netVars,
      NetTypes, appVars, AppTypes
<1> QED
  BY <1>1, <1>2, <1>3 DEF TypeOK


LEMMA BreakTypes == ASSUME TypeOK, Break PROVE TypeOK'
<1>1. PICK c \in 0..Len(wire[Client]), s \in 0..Len(wire[Server]) :
          wire' = [wire EXCEPT ![Client] = SubSeq(@, 1, c),
                               ![Server] = SubSeq(@, 1, s)]
  BY DEF Break
<1>2. wire \in [Ends -> Seq(Records)] /\ Client \in Ends /\ Server \in Ends
  BY DEF TypeOK, NetTypes, Ends
<1>3. /\ SubSeq(wire[Client], 1, c) \in Seq(Records)
      /\ SubSeq(wire[Server], 1, s) \in Seq(Records)
  BY <1>2
<1>4. wire' \in [Ends -> Seq(Records)]
  BY <1>1, <1>2, <1>3 DEF Ends
<1>5. NetTypes'
  <2>1. faults' \in Nat
    BY DEF Break, TypeOK, NetTypes
  <2>2. broken' = TRUE
    BY DEF Break
  <2> QED
    BY <1>4, <2>1, <2>2 DEF NetTypes
<1>6. KeyTypes' /\ EndTypes' /\ OpTypes' /\ AppTypes' /\ PastTypes'
  BY DEF Break, TypeOK, keyVars, KeyTypes, endVars, EndTypes, opVars, OpTypes,
         appVars, AppTypes, pastVars, PastTypes
<1> QED
  BY <1>5, <1>6 DEF TypeOK

\* A damaged record keeps its place and its number.
LEMMA DamageEffect ==
    ASSUME TypeOK, Damage
    PROVE  /\ wire' \in [Ends -> Seq(Records)]
           /\ \A d \in Ends :
                 /\ Len(wire'[d]) = Len(wire[d])
                 /\ \A j \in 1..Len(wire[d]) :
                       /\ wire'[d][j].kind = wire[d][j].kind
                       /\ wire'[d][j].gen = wire[d][j].gen
                       /\ wire'[d][j].seq = wire[d][j].seq
                       /\ wire'[d][j].number = wire[d][j].number
                       /\ wire'[d][j].intact => wire[d][j].intact
<1>0. PICK e \in Ends : \E i \in DOMAIN wire[e] :
          wire' = [wire EXCEPT ![e][i].intact = FALSE]
  BY DEF Damage
<1>1. PICK i \in DOMAIN wire[e] :
          wire' = [wire EXCEPT ![e][i].intact = FALSE]
  BY <1>0
<1>2. wire \in [Ends -> Seq(Records)]
  BY DEF TypeOK, NetTypes
<1> DEFINE r == [wire[e][i] EXCEPT !.intact = FALSE]
           w == [wire[e] EXCEPT ![i] = r]
<1>3. wire[e] \in Seq(Records) /\ i \in 1..Len(wire[e]) /\ wire[e][i] \in Records
  BY <1>1, <1>2
<1>4. /\ r \in Records
      /\ r.kind = wire[e][i].kind /\ r.gen = wire[e][i].gen
      /\ r.seq = wire[e][i].seq /\ r.number = wire[e][i].number
      /\ ~r.intact
  BY <1>3 DEF Records
<1>5. /\ w \in Seq(Records) /\ Len(w) = Len(wire[e])
      /\ \A j \in 1..Len(wire[e]) : w[j] = IF j = i THEN r ELSE wire[e][j]
  BY <1>3, <1>4
<1>6. wire' = [wire EXCEPT ![e] = w]
  BY <1>1
<1> HIDE DEF r, w
<1> QED
  BY <1>2, <1>3, <1>4, <1>5, <1>6

LEMMA DamageTypes == ASSUME TypeOK, Damage PROVE TypeOK'
<1>1. NetTypes'
  <2>1. faults' \in Nat
    BY DEF Damage, TypeOK, NetTypes
  <2>2. broken' \in BOOLEAN
    BY DEF Damage, TypeOK, NetTypes
  <2> QED
    BY DamageEffect, <2>1, <2>2 DEF NetTypes
<1>2. KeyTypes' /\ EndTypes' /\ OpTypes' /\ AppTypes' /\ PastTypes'
  BY DEF Damage, TypeOK, keyVars, KeyTypes, endVars, EndTypes, opVars, OpTypes,
         appVars, AppTypes, pastVars, PastTypes
<1> QED
  BY <1>1, <1>2 DEF TypeOK

LEMMA StepTypes == TypeOK /\ [Next]_vars => TypeOK'
<1> SUFFICES ASSUME TypeOK, [Next]_vars PROVE TypeOK'
  OBVIOUS
<1>1. ASSUME NEW e \in Ends, Calls(e) PROVE TypeOK'
  BY <1>1, WriteTypes, WriteClosedTypes, ReadTypes, ReadClosedTypes,
     SendKeyUpdateTypes, CloseTypes
  DEF Calls
<1>2. ASSUME NEW e \in Ends, Sends(e) PROVE TypeOK'
  BY <1>2, FragmentSentTypes, WriteDoneTypes, KeyUpdateSentTypes,
     AnswerSentTypes, ErrorSentTypes, CloseSentTypes,
     CloseSentAwaitingTypes
  DEF Sends
<1>3. ASSUME NEW e \in Ends, Fails(e) PROVE TypeOK'
  BY <1>3, WriteFailsTypes, KeyUpdateFailsTypes, ErrorFailsTypes,
     CloseFailsTypes
  DEF Fails
<1>4. ASSUME NEW e \in Ends, Receives(e) PROVE TypeOK'
  BY <1>4, ReadDataTypes, ReadTicketTypes, ReadKeyUpdateTypes,
     ReadKeyUpdateRequestTypes, ReadCloseNotifyTypes, GetFatalTypes,
     RefuseTypes, ReadEofTypes, ReadResetTypes, AwaitDataTypes,
     AwaitCloseNotifyTypes, AwaitHandshakeTypes, AwaitEndTypes,
     SalvageOtherTypes, SalvageAlertTypes, SalvageRefusedReadingTypes,
     SalvageRefusedUpdatingTypes, SalvageNothingTypes
  DEF Receives
<1>5. CASE Break
  BY <1>5, BreakTypes
<1>6. CASE Damage
  BY <1>6, DamageTypes
<1>7. CASE UNCHANGED vars
  BY <1>7 DEF vars, keyVars, endVars, opVars, netVars, appVars, pastVars,
         TypeOK, KeyTypes, EndTypes, OpTypes, NetTypes, AppTypes, PastTypes
<1> QED
  BY <1>1, <1>2, <1>3, <1>4, <1>5, <1>6, <1>7 DEF Next, Progress

\* The connection is type correct; in particular an end holds a sealed
\* record exactly while it is sending.
THEOREM RecordLayerTypeOK == Spec => []TypeOK
BY InitTypes, StepTypes, PTL DEF Spec

-----------------------------------------------------------------------------
(***************************************************************************)
(* The four kinds of steps.  Whatever a step does, an end keeps its write  *)
(* state, or advances it by sealing a record, or switches to the next key, *)
(* or stops: the actions are sorted into these kinds, and the invariants   *)
(* follow from the kinds alone.                                            *)
(***************************************************************************)
SameSession(e) ==
    /\ closed'[e] = closed[e]
    /\ failed'[e] = failed[e]
    /\ resumable'[e] = resumable[e]

Running(e) == ~closed[e] \/ at[e] # "idle"

\* The end may stop or start to wait, and drop the record it was sending.
Keeps(e) ==
    /\ SameSession(e)
    /\ closed[e] /\ at[e] = "idle" => at'[e] = "idle"
    /\ out'[e] \in {out[e], NoRecord}
    /\ writeState'[e] = writeState[e]
    /\ secrets'[e][e] = secrets[e][e]
    /\ used'[e] = used[e]

\* The next number of the current key is used.
Seals(e) ==
    /\ SameSession(e)
    /\ Running(e)
    /\ out'[e] # NoRecord => /\ out'[e].gen = writeState[e].gen
                             /\ out'[e].seq = writeState[e].seq
    /\ writeState'[e] = [gen |-> writeState[e].gen,
                         seq |-> writeState[e].seq + 1]
    /\ secrets'[e][e] = secrets[e][e]
    /\ used'[e] = used[e] \cup {<<writeState[e].gen, writeState[e].seq>>}

\* The next key is used.
Switches(e) ==
    /\ SameSession(e)
    /\ Running(e)
    /\ out'[e] = NoRecord
    /\ writeState'[e] = [gen |-> secrets[e][e] + 1, seq |-> 0]
    /\ secrets'[e][e] = secrets[e][e] + 1
    /\ used'[e] = used[e]

Stops(e) ==
    /\ closed'[e]
    /\ at'[e] = "idle"
    /\ out'[e] = NoRecord
    /\ secrets'[e][e] \in {secrets[e][e], secrets[e][e] + 1}
    /\ used'[e] = used[e]
    /\ failed'[e] => failed[e] \/ ~resumable'[e]
    /\ resumable'[e] => resumable[e]

StepOf(e) == Keeps(e) \/ Seals(e) \/ Switches(e) \/ Stops(e)

-----------------------------------------------------------------------------
\* An end of which nothing changes keeps all there is to keep.
LEMMA OthersKeep ==
    ASSUME NEW d \in Ends,
           UNCHANGED <<closed[d], failed[d], resumable[d], at[d], out[d],
                       writeState[d], secrets[d][d], used[d]>>
    PROVE  StepOf(d)
BY DEF StepOf, Keeps, SameSession

\* A shutdown is of one end only.
LEMMA StopEffect ==
    ASSUME TypeOK, NEW e \in Ends, NEW keep \in BOOLEAN,
           NEW what \in {"nothing", "eof", "error", "closed"},
           EndSession(e, keep), Finish(e, what), NEW d \in Ends, d # e
    PROVE  UNCHANGED <<closed[d], resumable[d], at[d], out[d]>>
BY EndSessionEffect, FinishEffect

\* Only the end that seals uses a number.
LEMMA SealOthers ==
    ASSUME TypeOK, NEW e \in Ends, NEW kind \in Kinds, Seal(e, kind),
           NEW d \in Ends, d # e
    PROVE  UNCHANGED <<out[d], writeState[d], used[d]>>
BY SealEffect

\* Each action is of one of the four kinds for either end.
LEMMA CallsSteps ==
    ASSUME TypeOK, NEW e \in Ends, Calls(e), NEW d \in Ends PROVE StepOf(d)
<1>1. CASE Write(e)
  <2>1. d = e => Seals(e)
    BY <1>1, SealEffect
    DEF Write, Kinds, KeyUpdates, Seals, SameSession, Running, keyVars,
        endVars, opVars, pastVars, Arrives, Goto, TypeOK, OpTypes, KeyTypes,
        PastTypes, EndTypes
  <2>2. d # e => StepOf(d)
    BY <1>1, SealOthers, OthersKeep
    DEF Write, Kinds, KeyUpdates, keyVars, endVars, opVars, pastVars, Goto,
        TypeOK, OpTypes, KeyTypes, PastTypes, EndTypes
  <2> QED
    BY <2>1, <2>2 DEF StepOf
<1>2. CASE WriteClosed(e)
  <2>1. d = e => Stops(e)
    BY <1>2, ShutdownEffect, EndSessionEffect, FinishEffect,
       SettingsAssumption
    DEF WriteClosed, Stops, keyVars, endVars, pastVars
  <2>2. d # e => StepOf(d)
    BY <1>2, StopEffect, ShutdownEffect, SettingsAssumption, OthersKeep
    DEF WriteClosed, TypeOK, PastTypes
  <2> QED
    BY <2>1, <2>2 DEF StepOf
<1>3. CASE Read(e)
  <2>1. d = e => Keeps(e)
    BY <1>3
    DEF Read, Keeps, SameSession, keyVars, endVars, opVars, pastVars, Arrives,
        Goto, TypeOK, OpTypes, KeyTypes, PastTypes, EndTypes
  <2>2. d # e => StepOf(d)
    BY <1>3, OthersKeep
    DEF Read, keyVars, endVars, opVars, pastVars, Goto, TypeOK, OpTypes,
        KeyTypes, PastTypes, EndTypes
  <2> QED
    BY <2>1, <2>2 DEF StepOf
<1>4. CASE ReadClosed(e)
  <2>1. d = e => Keeps(e)
    BY <1>4, FinishEffect
    DEF ReadClosed, Keeps, SameSession, keyVars, endVars, opVars, pastVars,
        Arrives, Goto, TypeOK, OpTypes, KeyTypes, PastTypes, EndTypes
  <2>2. d # e => StepOf(d)
    BY <1>4, FinishEffect, OthersKeep
    DEF ReadClosed, keyVars, endVars, opVars, pastVars, Goto, TypeOK, OpTypes,
        KeyTypes, PastTypes, EndTypes
  <2> QED
    BY <2>1, <2>2 DEF StepOf
<1>5. CASE SendKeyUpdate(e)
  <2>1. d = e => Seals(e)
    BY <1>5, SealEffect
    DEF SendKeyUpdate, Kinds, KeyUpdates, Seals, SameSession, Running,
        keyVars, endVars, opVars, pastVars, Arrives, Goto, TypeOK, OpTypes,
        KeyTypes, PastTypes, EndTypes
  <2>2. d # e => StepOf(d)
    BY <1>5, SealOthers, OthersKeep
    DEF SendKeyUpdate, Kinds, KeyUpdates, keyVars, endVars, opVars, pastVars,
        Goto, TypeOK, OpTypes, KeyTypes, PastTypes, EndTypes
  <2> QED
    BY <2>1, <2>2 DEF StepOf
<1>6. CASE Close(e)
  <2>1. d = e => Seals(e)
    BY <1>6, SealEffect
    DEF Close, Kinds, KeyUpdates, Seals, SameSession, Running, keyVars,
        endVars, opVars, pastVars, Arrives, Goto, TypeOK, OpTypes, KeyTypes,
        PastTypes, EndTypes
  <2>2. d # e => StepOf(d)
    BY <1>6, SealOthers, OthersKeep
    DEF Close, Kinds, KeyUpdates, keyVars, endVars, opVars, pastVars, Goto,
        TypeOK, OpTypes, KeyTypes, PastTypes, EndTypes
  <2> QED
    BY <2>1, <2>2 DEF StepOf
<1> QED
  BY <1>1, <1>2, <1>3, <1>4, <1>5, <1>6 DEF Calls

LEMMA SendsSteps ==
    ASSUME TypeOK, NEW e \in Ends, Sends(e), NEW d \in Ends PROVE StepOf(d)
<1>1. CASE FragmentSent(e)
  <2>1. d = e => Seals(e)
    BY <1>1, SealEffect
    DEF FragmentSent, Kinds, KeyUpdates, Seals, SameSession, Running, keyVars,
        endVars, opVars, pastVars, Arrives, Goto, TypeOK, OpTypes, KeyTypes,
        PastTypes, EndTypes
  <2>2. d # e => StepOf(d)
    BY <1>1, SealOthers, OthersKeep
    DEF FragmentSent, Kinds, KeyUpdates, keyVars, endVars, opVars, pastVars,
        Goto, TypeOK, OpTypes, KeyTypes, PastTypes, EndTypes
  <2> QED
    BY <2>1, <2>2 DEF StepOf
<1>2. CASE WriteDone(e)
  <2>1. d = e => Keeps(e)
    BY <1>2, FinishEffect
    DEF WriteDone, Keeps, SameSession, keyVars, endVars, opVars, pastVars,
        Arrives, Goto, TypeOK, OpTypes, KeyTypes, PastTypes, EndTypes
  <2>2. d # e => StepOf(d)
    BY <1>2, FinishEffect, OthersKeep
    DEF WriteDone, keyVars, endVars, opVars, pastVars, Goto, TypeOK, OpTypes,
        KeyTypes, PastTypes, EndTypes
  <2> QED
    BY <2>1, <2>2 DEF StepOf
<1>3. CASE KeyUpdateSent(e)
  <2>1. d = e => Switches(e)
    BY <1>3, SwitchWriteKeyEffect
    DEF KeyUpdateSent, Switches, SameSession, Running, keyVars, endVars,
        opVars, pastVars, Arrives, Goto, TypeOK, OpTypes, KeyTypes, PastTypes,
        EndTypes
  <2>2. d # e => StepOf(d)
    BY <1>3, SwitchWriteKeyEffect, OthersKeep
    DEF KeyUpdateSent, keyVars, endVars, opVars, pastVars, Goto, TypeOK,
        OpTypes, KeyTypes, PastTypes, EndTypes
  <2> QED
    BY <2>1, <2>2 DEF StepOf
<1>4. CASE AnswerSent(e)
  <2>1. d = e => Stops(e)
    BY <1>4, ShutdownEffect, EndSessionEffect, FinishEffect
    DEF AnswerSent, Stops, keyVars, endVars, pastVars
  <2>2. d # e => StepOf(d)
    BY <1>4, StopEffect, ShutdownEffect, OthersKeep
    DEF AnswerSent, TypeOK, PastTypes
  <2> QED
    BY <2>1, <2>2 DEF StepOf
<1>5. CASE ErrorSent(e)
  <2>1. d = e => Stops(e)
    BY <1>5, ShutdownEffect, EndSessionEffect, FinishEffect
    DEF ErrorSent, Stops, keyVars, endVars, pastVars
  <2>2. d # e => StepOf(d)
    BY <1>5, StopEffect, ShutdownEffect, OthersKeep
    DEF ErrorSent, TypeOK, PastTypes
  <2> QED
    BY <2>1, <2>2 DEF StepOf
<1>6. CASE CloseSent(e)
  <2>1. d = e => Stops(e)
    BY <1>6, ShutdownEffect, EndSessionEffect, FinishEffect
    DEF CloseSent, Stops, keyVars, endVars, pastVars
  <2>2. d # e => StepOf(d)
    BY <1>6, StopEffect, ShutdownEffect, OthersKeep
    DEF CloseSent, TypeOK, PastTypes
  <2> QED
    BY <2>1, <2>2 DEF StepOf
<1>7. CASE CloseSentAwaiting(e)
  <2>1. d = e => Keeps(e)
    BY <1>7
    DEF CloseSentAwaiting, Keeps, SameSession, keyVars, endVars, opVars,
        pastVars, Arrives, Goto, TypeOK, OpTypes, KeyTypes, PastTypes,
        EndTypes
  <2>2. d # e => StepOf(d)
    BY <1>7, OthersKeep
    DEF CloseSentAwaiting, keyVars, endVars, opVars, pastVars, Goto, TypeOK,
        OpTypes, KeyTypes, PastTypes, EndTypes
  <2> QED
    BY <2>1, <2>2 DEF StepOf
<1> QED
  BY <1>1, <1>2, <1>3, <1>4, <1>5, <1>6, <1>7 DEF Sends

LEMMA FailsSteps ==
    ASSUME TypeOK, NEW e \in Ends, Fails(e), NEW d \in Ends PROVE StepOf(d)
<1>1. CASE WriteFails(e)
  <2>1. d = e => Stops(e)
    BY <1>1, ShutdownEffect, EndSessionEffect, FinishEffect,
       SettingsAssumption
    DEF WriteFails, Stops, keyVars, endVars, pastVars
  <2>2. d # e => StepOf(d)
    BY <1>1, StopEffect, ShutdownEffect, SettingsAssumption, OthersKeep
    DEF WriteFails, TypeOK, PastTypes
  <2> QED
    BY <2>1, <2>2 DEF StepOf
<1>2. CASE KeyUpdateFails(e)
  <2>1. d = e => Keeps(e)
    BY <1>2
    DEF KeyUpdateFails, Keeps, SameSession, keyVars, endVars, opVars,
        pastVars, Arrives, Goto, TypeOK, OpTypes, KeyTypes, PastTypes,
        EndTypes
  <2>2. d # e => StepOf(d)
    BY <1>2, OthersKeep
    DEF KeyUpdateFails, keyVars, endVars, opVars, pastVars, Goto, TypeOK,
        OpTypes, KeyTypes, PastTypes, EndTypes
  <2> QED
    BY <2>1, <2>2 DEF StepOf
<1>3. CASE ErrorFails(e)
  <2>1. d = e => Stops(e)
    BY <1>3, ShutdownEffect, EndSessionEffect, FinishEffect
    DEF ErrorFails, Stops, keyVars, endVars, pastVars
  <2>2. d # e => UNCHANGED <<closed[d], resumable[d], at[d], out[d]>>
    <3>1. \E keep \in BOOLEAN : Shutdown(e, keep)
      BY <1>3 DEF ErrorFails
    <3>2. \E what \in {"error", "closed"} : Finish(e, what)
      BY <1>3 DEF ErrorFails
    <3> QED
      BY <3>1, <3>2, StopEffect, ShutdownEffect
  <2>3. d # e => StepOf(d)
    BY <1>3, <2>2, ShutdownEffect, OthersKeep
    DEF ErrorFails, TypeOK, PastTypes
  <2> QED
    BY <2>1, <2>3 DEF StepOf
<1>4. CASE CloseFails(e)
  <2>1. d = e => Stops(e)
    BY <1>4, ShutdownEffect, EndSessionEffect, FinishEffect
    DEF CloseFails, Stops, keyVars, endVars, pastVars
  <2>2. d # e => StepOf(d)
    BY <1>4, StopEffect, ShutdownEffect, OthersKeep
    DEF CloseFails, TypeOK, PastTypes
  <2> QED
    BY <2>1, <2>2 DEF StepOf
<1> QED
  BY <1>1, <1>2, <1>3, <1>4 DEF Fails

LEMMA ReceivesSteps ==
    ASSUME TypeOK, NEW e \in Ends, Receives(e), NEW d \in Ends PROVE StepOf(d)
<1>1. CASE ReadData(e)
  <2>1. d = e => Keeps(e)
    BY <1>1, FinishEffect
    DEF ReadData, Keeps, SameSession, keyVars, endVars, opVars, pastVars,
        Arrives, Goto, TypeOK, OpTypes, KeyTypes, PastTypes, EndTypes
  <2>2. d # e => StepOf(d)
    BY <1>1, FinishEffect, OthersKeep
    DEF ReadData, keyVars, endVars, opVars, pastVars, Goto, TypeOK, OpTypes,
        KeyTypes, PastTypes, EndTypes
  <2> QED
    BY <2>1, <2>2 DEF StepOf
<1>2. CASE ReadTicket(e)
  <2>1. d = e => Keeps(e)
    BY <1>2
    DEF ReadTicket, Keeps, SameSession, keyVars, endVars, opVars, pastVars,
        Arrives, Goto, TypeOK, OpTypes, KeyTypes, PastTypes, EndTypes
  <2>2. d # e => StepOf(d)
    BY <1>2, OthersKeep
    DEF ReadTicket, keyVars, endVars, opVars, pastVars, Goto, TypeOK, OpTypes,
        KeyTypes, PastTypes, EndTypes
  <2> QED
    BY <2>1, <2>2 DEF StepOf
<1>3. CASE ReadKeyUpdate(e)
  <2>1. d = e => Keeps(e)
    BY <1>3, SwitchReadKeyEffect
    DEF ReadKeyUpdate, Keeps, SameSession, keyVars, endVars, opVars, pastVars,
        Arrives, Goto, TypeOK, OpTypes, KeyTypes, PastTypes, EndTypes
  <2>2. d # e => StepOf(d)
    BY <1>3, SwitchReadKeyEffect, OthersKeep
    DEF ReadKeyUpdate, keyVars, endVars, opVars, pastVars, Goto, TypeOK,
        OpTypes, KeyTypes, PastTypes, EndTypes
  <2> QED
    BY <2>1, <2>2 DEF StepOf
<1>4. CASE ReadKeyUpdateRequest(e)
  <2>1. d = e => Seals(e)
    BY <1>4, SealEffect, SwitchReadKeyEffect
    DEF ReadKeyUpdateRequest, Kinds, KeyUpdates, Seals, SameSession, Running,
        keyVars, endVars, opVars, pastVars, Arrives, Goto, TypeOK, OpTypes,
        KeyTypes, PastTypes, EndTypes
  <2>2. d # e => StepOf(d)
    <3>1. SUFFICES ASSUME d # e PROVE StepOf(d)
      OBVIOUS
    <3>2. UNCHANGED <<out[d], writeState[d], used[d]>>
      BY <1>4, <3>1, SealEffect DEF ReadKeyUpdateRequest, Kinds
    <3>3. UNCHANGED secrets[d][d]
      BY <1>4, <3>1, SwitchReadKeyEffect DEF ReadKeyUpdateRequest
    <3>4. UNCHANGED <<closed[d], resumable[d], failed[d], at[d]>>
      BY <1>4, <3>1
      DEF ReadKeyUpdateRequest, endVars, Goto, TypeOK, OpTypes
    <3> QED
      BY <3>2, <3>3, <3>4, OthersKeep
  <2> QED
    BY <2>1, <2>2 DEF StepOf
<1>5. CASE ReadCloseNotify(e)
  <2>1. d = e => Seals(e)
    BY <1>5, SealEffect
    DEF ReadCloseNotify, Kinds, KeyUpdates, Seals, SameSession, Running,
        keyVars, endVars, opVars, pastVars, Arrives, Goto, TypeOK, OpTypes,
        KeyTypes, PastTypes, EndTypes
  <2>2. d # e => StepOf(d)
    BY <1>5, SealOthers, OthersKeep
    DEF ReadCloseNotify, Kinds, KeyUpdates, keyVars, endVars, opVars,
        pastVars, Goto, TypeOK, OpTypes, KeyTypes, PastTypes, EndTypes
  <2> QED
    BY <2>1, <2>2 DEF StepOf
<1>6. CASE GetFatal(e)
  <2>1. d = e => Stops(e)
    BY <1>6, ShutdownEffect, EndSessionEffect, FinishEffect
    DEF GetFatal, Stops, keyVars, endVars, pastVars
  <2>2. d # e => StepOf(d)
    BY <1>6, StopEffect, ShutdownEffect, OthersKeep
    DEF GetFatal, TypeOK, PastTypes
  <2> QED
    BY <2>1, <2>2 DEF StepOf
<1>7. CASE Refuse(e)
  <2>1. d = e => Seals(e)
    BY <1>7, SealEffect
    DEF Refuse, Kinds, KeyUpdates, Seals, SameSession, Running, keyVars,
        endVars, opVars, pastVars, Arrives, Goto, TypeOK, OpTypes, KeyTypes,
        PastTypes, EndTypes
  <2>2. d # e => StepOf(d)
    BY <1>7, SealOthers, OthersKeep
    DEF Refuse, Kinds, KeyUpdates, keyVars, endVars, opVars, pastVars, Goto,
        TypeOK, OpTypes, KeyTypes, PastTypes, EndTypes
  <2> QED
    BY <2>1, <2>2 DEF StepOf
<1>8. CASE ReadEof(e)
  <2>1. d = e => Stops(e)
    BY <1>8, ShutdownEffect, EndSessionEffect, FinishEffect,
       SettingsAssumption
    DEF ReadEof, Stops, keyVars, endVars, pastVars
  <2>2. d # e => StepOf(d)
    BY <1>8, StopEffect, ShutdownEffect, SettingsAssumption, OthersKeep
    DEF ReadEof, TypeOK, PastTypes
  <2> QED
    BY <2>1, <2>2 DEF StepOf
<1>9. CASE ReadReset(e)
  <2>1. d = e => Stops(e)
    BY <1>9, ShutdownEffect, EndSessionEffect, FinishEffect
    DEF ReadReset, Stops, keyVars, endVars, pastVars
  <2>2. d # e => StepOf(d)
    BY <1>9, StopEffect, ShutdownEffect, OthersKeep
    DEF ReadReset, TypeOK, PastTypes
  <2> QED
    BY <2>1, <2>2 DEF StepOf
<1>10. CASE AwaitData(e)
  <2>1. d = e => Keeps(e)
    BY <1>10
    DEF AwaitData, Keeps, SameSession, keyVars, endVars, opVars, pastVars,
        Arrives, Goto, TypeOK, OpTypes, KeyTypes, PastTypes, EndTypes
  <2>2. d # e => StepOf(d)
    BY <1>10, OthersKeep
    DEF AwaitData, keyVars, endVars, opVars, pastVars, Goto, TypeOK, OpTypes,
        KeyTypes, PastTypes, EndTypes
  <2> QED
    BY <2>1, <2>2 DEF StepOf
<1>11. CASE AwaitCloseNotify(e)
  <2>1. d = e => Stops(e)
    BY <1>11, ShutdownEffect, EndSessionEffect, FinishEffect
    DEF AwaitCloseNotify, Stops, keyVars, endVars, pastVars
  <2>2. d # e => StepOf(d)
    BY <1>11, StopEffect, ShutdownEffect, OthersKeep
    DEF AwaitCloseNotify, TypeOK, PastTypes
  <2> QED
    BY <2>1, <2>2 DEF StepOf
<1>12. CASE AwaitHandshake(e)
  <2>1. d = e => Seals(e)
    BY <1>12, SealEffect
    DEF AwaitHandshake, Kinds, KeyUpdates, Seals, SameSession, Running,
        keyVars, endVars, opVars, pastVars, Arrives, Goto, TypeOK, OpTypes,
        KeyTypes, PastTypes, EndTypes
  <2>2. d # e => StepOf(d)
    BY <1>12, SealOthers, OthersKeep
    DEF AwaitHandshake, Kinds, KeyUpdates, keyVars, endVars, opVars, pastVars,
        Goto, TypeOK, OpTypes, KeyTypes, PastTypes, EndTypes
  <2> QED
    BY <2>1, <2>2 DEF StepOf
<1>13. CASE AwaitEnd(e)
  <2>1. d = e => Stops(e)
    BY <1>13, ShutdownEffect, EndSessionEffect, FinishEffect
    DEF AwaitEnd, Stops, keyVars, endVars, pastVars
  <2>2. d # e => StepOf(d)
    BY <1>13, StopEffect, ShutdownEffect, OthersKeep
    DEF AwaitEnd, TypeOK, PastTypes
  <2> QED
    BY <2>1, <2>2 DEF StepOf
<1>14. CASE SalvageOther(e)
  <2>1. d = e => Stops(e)
    BY <1>14, SwitchWriteKeyEffect, EndSessionEffect, FinishEffect
    DEF SalvageOther, Stops, keyVars, endVars, pastVars
  <2>2. d # e => UNCHANGED <<closed[d], resumable[d], at[d], out[d]>>
    <3>1. EndSession(e, FALSE)
      BY <1>14 DEF SalvageOther
    <3>2. \E what \in {"eof", "nothing"} : Finish(e, what)
      BY <1>14 DEF SalvageOther
    <3> QED
      BY <3>1, <3>2, StopEffect
  <2>3. d # e => StepOf(d)
    BY <1>14, <2>2, SwitchWriteKeyEffect, OthersKeep
    DEF SalvageOther, TypeOK, PastTypes
  <2> QED
    BY <2>1, <2>3 DEF StepOf
<1>15. CASE SalvageAlert(e)
  <2>1. d = e => Stops(e)
    BY <1>15, ShutdownEffect, EndSessionEffect, FinishEffect
    DEF SalvageAlert, Stops, keyVars, endVars, pastVars
  <2>2. d # e => StepOf(d)
    BY <1>15, StopEffect, ShutdownEffect, OthersKeep
    DEF SalvageAlert, TypeOK, PastTypes
  <2> QED
    BY <2>1, <2>2 DEF StepOf
<1>16. CASE SalvageRefusedReading(e)
  <2>1. d = e => Stops(e)
    BY <1>16, ShutdownEffect, EndSessionEffect, FinishEffect
    DEF SalvageRefusedReading, Stops, keyVars, endVars, pastVars
  <2>2. d # e => StepOf(d)
    BY <1>16, StopEffect, ShutdownEffect, OthersKeep
    DEF SalvageRefusedReading, TypeOK, PastTypes
  <2> QED
    BY <2>1, <2>2 DEF StepOf
<1>17. CASE SalvageRefusedUpdating(e)
  <2>1. d = e => Seals(e)
    BY <1>17, FinishEffect
    DEF SalvageRefusedUpdating, Seals, SameSession, Running, keyVars, endVars,
        opVars, pastVars, Arrives, Goto, TypeOK, OpTypes, KeyTypes, PastTypes,
        EndTypes, States
  <2>2. d # e => StepOf(d)
    BY <1>17, FinishEffect, OthersKeep
    DEF SalvageRefusedUpdating, keyVars, endVars, opVars, pastVars, Goto,
        TypeOK, OpTypes, KeyTypes, PastTypes, EndTypes
  <2> QED
    BY <2>1, <2>2 DEF StepOf
<1>18. CASE SalvageNothing(e)
  <2>1. d = e => Keeps(e)
    BY <1>18, FinishEffect
    DEF SalvageNothing, Keeps, SameSession, keyVars, endVars, opVars,
        pastVars, Arrives, Goto, TypeOK, OpTypes, KeyTypes, PastTypes,
        EndTypes
  <2>2. d # e => StepOf(d)
    BY <1>18, FinishEffect, OthersKeep
    DEF SalvageNothing, keyVars, endVars, opVars, pastVars, Goto, TypeOK,
        OpTypes, KeyTypes, PastTypes, EndTypes
  <2> QED
    BY <2>1, <2>2 DEF StepOf
<1> QED
  BY <1>1, <1>2, <1>3, <1>4, <1>5, <1>6, <1>7, <1>8, <1>9, <1>10, <1>11,
     <1>12, <1>13, <1>14, <1>15, <1>16, <1>17, <1>18 DEF Receives

LEMMA EveryStep ==
    ASSUME TypeOK, [Next]_vars, NEW d \in Ends PROVE StepOf(d)
<1>1. CASE \E e \in Ends : Calls(e) \/ Progress(e)
  BY <1>1, CallsSteps, SendsSteps, FailsSteps, ReceivesSteps DEF Progress
<1>2. CASE Break \/ Damage \/ UNCHANGED vars
  BY <1>2, OthersKeep
  DEF Break, Damage, vars, keyVars, endVars, opVars, pastVars
<1> QED
  BY <1>1, <1>2 DEF Next

-----------------------------------------------------------------------------
(***************************************************************************)
(* The invariant.  An open end seals with the latest key of its direction, *)
(* and every number it used with that key is below the next.  A closed end *)
(* is idle, so it never seals again and its numbers no longer matter.      *)
(***************************************************************************)
NumbersBelow(e) ==
    /\ writeState[e].gen = secrets[e][e]
    /\ \A u \in used[e] :
          \/ u[1] < secrets[e][e]
          \/ u[1] = secrets[e][e] /\ u[2] < writeState[e].seq

SafeEnd(e) ==
    /\ closed[e] => at[e] = "idle"
    /\ out[e] # NoRecord => out[e].gen # Plain
    /\ failed[e] => ~resumable[e]
    /\ ~closed[e] => NumbersBelow(e)

SafetyInv == TypeOK /\ \A e \in Ends : SafeEnd(e)

LEMMA InitSafe == Init => SafetyInv
<1> SUFFICES ASSUME Init PROVE SafetyInv
  OBVIOUS
<1>1. ASSUME NEW e \in Ends PROVE NumbersBelow(e)
  <2>1. PICK n \in 0..MaxTickets :
          /\ writeState = [d \in Ends |->
                             [gen |-> 0, seq |-> IF d = Server THEN n ELSE 0]]
          /\ used = [d \in Ends |->
                        IF d = Server THEN {<<0, i - 1>> : i \in 1..n} ELSE {}]
    BY DEF Init
  <2>2. secrets[e][e] = 0
    BY DEF Init
  <2>3. n \in Nat
    BY BoundsAssumption
  <2> QED
    BY <2>1, <2>2, <2>3 DEF NumbersBelow
<1>2. ASSUME NEW e \in Ends
      PROVE  at[e] = "idle" /\ out[e] = NoRecord /\ ~failed[e]
  BY DEF Init
<1> QED
  BY <1>1, <1>2, InitTypes DEF SafetyInv, SafeEnd

LEMMA KeepsSafe ==
    ASSUME SafetyInv, NEW e \in Ends, Keeps(e), TypeOK' PROVE SafeEnd(e)'
BY DEF SafetyInv, SafeEnd, NumbersBelow, Keeps, SameSession

LEMMA SealsSafe ==
    ASSUME SafetyInv, NEW e \in Ends, Seals(e), TypeOK' PROVE SafeEnd(e)'
<1>1. ~closed[e] /\ NumbersBelow(e)
  BY DEF SafetyInv, SafeEnd, Seals, Running
<1>2. /\ secrets[e][e] \in Nat
      /\ writeState[e].gen \in Nat
      /\ writeState[e].seq \in Nat
      /\ used[e] \in SUBSET ((Nat \cup {Plain}) \X Nat)
  BY <1>1 DEF SafetyInv, TypeOK, KeyTypes, PastTypes, States, NumbersBelow
<1>3. NumbersBelow(e)'
  <2>1. ASSUME NEW u \in used'[e]
        PROVE  \/ u[1] < secrets[e][e]
               \/ u[1] = secrets[e][e] /\ u[2] < writeState[e].seq + 1
    BY <1>1, <1>2, <2>1 DEF Seals, NumbersBelow
  <2> QED
    BY <1>1, <2>1 DEF Seals, NumbersBelow
<1>4. out'[e] # NoRecord => out'[e].gen # Plain
  BY <1>2 DEF Seals, Plain
<1> QED
  BY <1>1, <1>3, <1>4 DEF SafetyInv, SafeEnd, Seals, SameSession

LEMMA SwitchesSafe ==
    ASSUME SafetyInv, NEW e \in Ends, Switches(e), TypeOK' PROVE SafeEnd(e)'
<1>1. ~closed[e] /\ NumbersBelow(e)
  BY DEF SafetyInv, SafeEnd, Switches, Running
<1>2. /\ secrets[e][e] \in Nat
      /\ used[e] \in SUBSET ((Nat \cup {Plain}) \X Nat)
  BY DEF SafetyInv, TypeOK, KeyTypes, PastTypes
<1>3. NumbersBelow(e)'
  BY <1>1, <1>2 DEF Switches, NumbersBelow, Plain
<1> QED
  BY <1>1, <1>3 DEF SafetyInv, SafeEnd, Switches, SameSession

LEMMA StopsSafe ==
    ASSUME SafetyInv, NEW e \in Ends, Stops(e), TypeOK' PROVE SafeEnd(e)'
BY DEF SafetyInv, SafeEnd, Stops, TypeOK, EndTypes, PastTypes

LEMMA StepSafe == SafetyInv /\ [Next]_vars => SafetyInv'
<1> SUFFICES ASSUME SafetyInv, [Next]_vars PROVE SafetyInv'
  OBVIOUS
<1>1. TypeOK'
  BY StepTypes DEF SafetyInv
<1>2. ASSUME NEW e \in Ends PROVE SafeEnd(e)'
  BY <1>1, EveryStep, KeepsSafe, SealsSafe, SwitchesSafe, StopsSafe
  DEF StepOf, SafetyInv
<1> QED
  BY <1>1, <1>2 DEF SafetyInv

LEMMA AlwaysSafe == Spec => []SafetyInv
BY InitSafe, StepSafe, PTL DEF Spec

-----------------------------------------------------------------------------
(***************************************************************************)
(* What this says of an end.                                               *)
(***************************************************************************)

\* Once _shutdown has marked a connection closed its end sends nothing, and
\* no record ever leaves without keys (_sendMsg, _shutdown).
THEOREM RecordLayerProtected == Spec => []NothingUnprotected
<1>1. SafetyInv => NothingUnprotected
  BY DEF SafetyInv, SafeEnd, NothingUnprotected
<1> QED
  BY <1>1, AlwaysSafe, PTL

\* A fatal alert, sent (_sendError) or received (_getMsg), makes the session
\* not resumable, and no later call makes it resumable again.
THEOREM RecordLayerFailedNotResumable == Spec => []FailedNotResumable
<1>1. SafetyInv => FailedNotResumable
  BY DEF SafetyInv, SafeEnd, FailedNotResumable
<1> QED
  BY <1>1, AlwaysSafe, PTL

\* Every record is sealed with a pair of key and sequence number its end has
\* not used before (_encryptThenSeal over ConnectionState.getSeqNumBytes).
THEOREM RecordLayerFreshNonce == Spec => FreshNonce
<1> DEFINE Fresh == \A e \in Ends :
                      out'[e] # out[e] /\ out'[e] # NoRecord =>
                          <<out'[e].gen, out'[e].seq>> \notin used[e]
<1>1. ASSUME SafetyInv, [Next]_vars, NEW e \in Ends,
             out'[e] # out[e], out'[e] # NoRecord
      PROVE  <<out'[e].gen, out'[e].seq>> \notin used[e]
  <2>1. StepOf(e)
    BY <1>1, EveryStep DEF SafetyInv
  <2>2. Seals(e)
    BY <1>1, <2>1 DEF StepOf, Keeps, Switches, Stops
  <2>3. NumbersBelow(e)
    BY <1>1, <2>2 DEF SafetyInv, SafeEnd, Seals, Running
  <2>4. secrets[e][e] \in Nat /\ writeState[e].seq \in Nat
    BY <1>1 DEF SafetyInv, TypeOK, KeyTypes, States
  <2>5. /\ out'[e].gen = secrets[e][e]
        /\ out'[e].seq = writeState[e].seq
    BY <1>1, <2>2, <2>3 DEF Seals, NumbersBelow
  <2> QED
    BY <2>3, <2>4, <2>5 DEF NumbersBelow
<1>2. SafetyInv /\ [Next]_vars => [Fresh]_vars
  BY <1>1
<1> QED
  BY <1>2, AlwaysSafe, PTL DEF Spec, FreshNonce

-----------------------------------------------------------------------------
(***************************************************************************)
(* The two directions, for any number of writes, KeyUpdates, closes and    *)
(* faults and any capacity of the sockets: an end that waits for a record  *)
(* has the key and the number that its peer sealed the next one with, and  *)
(* each direction is a reliable stream that can end early.                 *)
(*                                                                         *)
(* Both follow from one invariant about what is under way to an end.  An   *)
(* action is sorted twice, by what it does to the stream its end sends and *)
(* by what it does to the one it reads; the invariant follows from these   *)
(* kinds alone.                                                            *)
(***************************************************************************)

-----------------------------------------------------------------------------
(***************************************************************************)
(* The records under way to an end.  The first opens under the end's read  *)
(* state, each of the others under the state that the one before leaves    *)
(* behind, and the one its peer seals next under what the last leaves.     *)
(* The same holds of the numbers of the application data.                  *)
(***************************************************************************)

\* An end goes on reading where it stopped, until it is closed, is about to
\* send a fatal alert, or has raised.
Listening(e) ==
    /\ ~closed[e]
    /\ reported[e] # "error"
    /\ at[e] \notin {"send_error", "send_error_closing"}

\* close() drops the data it waits through: they are not delivered.
Counting(e) == at[e] # "awaiting"

AfterRecord(r) ==
    IF r.kind \in KeyUpdates THEN [gen |-> r.gen + 1, seq |-> 0]
                             ELSE [gen |-> r.gen, seq |-> r.seq + 1]

Matches(r, state) == r.gen = state.gen /\ r.seq = state.seq
Numbered(r, n) == r.number = IF r.kind = "application_data" THEN n + 1 ELSE n

Follows(s, r) == Matches(s, AfterRecord(r)) /\ Numbered(s, r.number)

Begins(e, w) ==
    w # <<>> => /\ Matches(w[1], readState[e])
                /\ Counting(e) => Numbered(w[1], delivered[e])

Chained(w) == \A i \in 1..(Len(w) - 1) : Follows(w[i + 1], w[i])

InOrder(e) ==
    Listening(e) => /\ readState[e].gen = secrets[e][Peer(e)]
                    /\ Begins(e, wire[Peer(e)])
                    /\ Chained(wire[Peer(e)])

\* The state and the number that the peer's next record has to follow.
StateAfter(e, w) == IF w = <<>> THEN readState[e] ELSE AfterRecord(w[Len(w)])
NumberAfter(e, w) == IF w = <<>> THEN delivered[e] ELSE w[Len(w)].number
NumberKnown(e, w) == w # <<>> \/ Counting(e)

LinkedNone(e, p, w) ==
    /\ writeState[p] = StateAfter(e, w)
    /\ NumberKnown(e, w) => written[p] = NumberAfter(e, w)

LinkedSealed(e, p, w) ==
    /\ Matches(out[p], StateAfter(e, w))
    /\ NumberKnown(e, w) => Numbered(out[p], NumberAfter(e, w))
    /\ writeState[p] = [gen |-> out[p].gen, seq |-> out[p].seq + 1]
    /\ written[p] = out[p].number

Linked(e, p) ==
    Listening(e) /\ ~closed[p] /\ ~Unsendable(p) =>
        IF out[p] = NoRecord THEN LinkedNone(e, p, wire[p])
                             ELSE LinkedSealed(e, p, wire[p])

\* What a sender is doing, and what it sent.
Updating == {"send_update", "send_reply"}

Sender(p) ==
    /\ closed[p] \/ reported[p] \in {"nothing", "error"}
    /\ at[p] \in Salvaging => Unsendable(p)
    /\ out[p] # NoRecord => (out[p].kind \in KeyUpdates <=> at[p] \in Updating)
    /\ \A i \in 1..Len(wire[p]) : wire[p][i].number <= written[p]
    /\ out[p] # NoRecord => out[p].number <= written[p]

Direction(e) == InOrder(e) /\ Linked(e, Peer(e)) /\ Sender(Peer(e))

StreamInv == SafetyInv /\ \A e \in Ends : Direction(e)

-----------------------------------------------------------------------------
(***************************************************************************)
(* Chains of records.                                                      *)
(***************************************************************************)

\* A record at the end of a chain has to follow the last one.
LEMMA AppendChained ==
    ASSUME NEW w \in Seq(Records), NEW r \in Records, Chained(w),
           w # <<>> => Follows(r, w[Len(w)])
    PROVE  Chained(Append(w, r))
<1> DEFINE v == Append(w, r)
<1>1. /\ Len(v) = Len(w) + 1
      /\ \A i \in 1..Len(w) : v[i] = w[i]
      /\ v[Len(w) + 1] = r
  OBVIOUS
<1>2. ASSUME NEW i \in 1..Len(w) PROVE Follows(v[i + 1], v[i])
  <2>1. CASE i = Len(w)
    BY <1>1, <2>1
  <2>2. CASE i # Len(w)
    <3>1. i \in 1..(Len(w) - 1) /\ i + 1 \in 1..Len(w)
      BY <2>2
    <3> QED
      BY <1>1, <3>1 DEF Chained
  <2> QED
    BY <2>1, <2>2
<1> HIDE DEF v
<1>3. Chained(v)
  BY <1>1, <1>2 DEF Chained
<1> QED
  BY <1>3 DEF v

\* What is left of a chain without its first record is one.
LEMMA TailChained ==
    ASSUME NEW w \in Seq(Records), w # <<>>, Chained(w)
    PROVE  /\ Chained(Tail(w))
           /\ w[1] \in Records
           /\ Tail(w) = <<>> => Len(w) = 1
           /\ Tail(w) # <<>> => /\ Follows(Tail(w)[1], w[1])
                                /\ Tail(w)[Len(Tail(w))] = w[Len(w)]
<1> DEFINE v == Tail(w)
<1>1. /\ Len(w) \in Nat /\ Len(w) >= 1
      /\ v \in Seq(Records)
      /\ Len(v) = Len(w) - 1
      /\ \A i \in 1..Len(v) : v[i] = w[i + 1]
  OBVIOUS
<1> HIDE DEF v
<1>2. v = <<>> <=> Len(v) = 0
  BY <1>1, EmptySeq
<1>3. Chained(v)
  <2>1. ASSUME NEW i \in 1..(Len(v) - 1) PROVE Follows(v[i + 1], v[i])
    <3>1. i \in 1..Len(v) /\ i + 1 \in 1..Len(v) /\ i + 1 \in 1..(Len(w) - 1)
      BY <1>1, <2>1
    <3>2. Follows(w[i + 1 + 1], w[i + 1])
      BY <3>1 DEF Chained
    <3> QED
      BY <1>1, <3>1, <3>2
  <2> QED
    BY <2>1 DEF Chained
<1>4. v # <<>> => Follows(v[1], w[1]) /\ v[Len(v)] = w[Len(w)]
  <2> SUFFICES ASSUME v # <<>>
               PROVE  Follows(v[1], w[1]) /\ v[Len(v)] = w[Len(w)]
    OBVIOUS
  <2>1. 1 \in 1..(Len(w) - 1) /\ 1 \in 1..Len(v) /\ Len(v) \in 1..Len(v)
    BY <1>1, <1>2
  <2>2. Follows(w[1 + 1], w[1])
    BY <2>1 DEF Chained
  <2>3. Len(v) + 1 = Len(w)
    BY <1>1
  <2>4. v[1] = w[1 + 1] /\ v[Len(v)] = w[Len(v) + 1]
    BY <1>1, <2>1
  <2> QED
    BY <2>2, <2>3, <2>4
<1>5. w[1] \in Records
  BY <1>1
<1> QED
  BY <1>1, <1>2, <1>3, <1>4, <1>5 DEF v

\* A break of the network leaves a chain.
LEMMA PrefixChained ==
    ASSUME NEW w \in Seq(Records), NEW c \in 0..Len(w), Chained(w)
    PROVE  /\ Chained(SubSeq(w, 1, c))
           /\ Len(SubSeq(w, 1, c)) = c
           /\ \A i \in 1..c : SubSeq(w, 1, c)[i] = w[i]
<1> DEFINE v == SubSeq(w, 1, c)
<1>1. Len(v) = c /\ \A i \in 1..c : v[i] = w[i]
  OBVIOUS
<1> HIDE DEF v
<1>2. ASSUME NEW i \in 1..(Len(v) - 1) PROVE Follows(v[i + 1], v[i])
  <2>1. i \in 1..c /\ i + 1 \in 1..c /\ i \in 1..(Len(w) - 1)
    BY <1>1, <1>2
  <2> QED
    BY <1>1, <2>1 DEF Chained
<1>3. Chained(v)
  BY <1>2 DEF Chained
<1> QED
  BY <1>1, <1>3 DEF v

-----------------------------------------------------------------------------
(***************************************************************************)
(* The kinds of steps of an end, for the stream it sends.                  *)
(***************************************************************************)

\* The next record is sealed.
Sealed(x) ==
    /\ out'[x] \in Records
    /\ Matches(out'[x], writeState[x])
    /\ Numbered(out'[x], written[x])
    /\ writeState'[x] = [gen |-> writeState[x].gen,
                         seq |-> writeState[x].seq + 1]
    /\ written'[x] = out'[x].number
    /\ out'[x].kind \in KeyUpdates <=> at'[x] \in Updating

SealsNext(x) == wire'[x] = wire[x] /\ out[x] = NoRecord /\ Sealed(x)

\* Nothing is sealed or sent.
Waits(x) ==
    /\ wire'[x] = wire[x]
    /\ out[x] = NoRecord
    /\ out'[x] = NoRecord
    /\ writeState'[x] = writeState[x]
    /\ written'[x] = written[x]

\* The end stops, or can no longer send.
Leaves(x) ==
    /\ wire'[x] = wire[x]
    /\ out'[x] = NoRecord
    /\ written'[x] = written[x]
    /\ closed'[x] \/ Unsendable(x)

\* The sealed record goes out, the last one, or before a switch of keys or
\* the next fragment.
AfterPut(x) ==
    \/ /\ out'[x] = NoRecord
       /\ written'[x] = written[x]
       /\ \/ closed'[x]
          \/ out[x].kind \notin KeyUpdates /\ writeState'[x] = writeState[x]
          \/ /\ out[x].kind \in KeyUpdates
             /\ writeState'[x] = [gen |-> secrets[x][x] + 1, seq |-> 0]
    \/ out[x].kind \notin KeyUpdates /\ Sealed(x)

Puts(x) ==
    /\ out[x] \in Records
    /\ ~broken
    /\ \/ sockOpen[Peer(x)] /\ wire'[x] = Append(wire[x], out[x])
       \/ ~sockOpen[Peer(x)] /\ wire'[x] = wire[x]
    /\ AfterPut(x)

SenderStep(x) == SealsNext(x) \/ Waits(x) \/ Leaves(x) \/ Puts(x)

(***************************************************************************)
(* The kinds of steps of an end, for the stream it reads.                  *)
(***************************************************************************)
ReadsNone(x) ==
    /\ wire'[Peer(x)] = wire[Peer(x)]
    /\ Listening(x)' =>
          /\ Listening(x)
          /\ readState'[x] = readState[x]
          /\ secrets'[x][Peer(x)] = secrets[x][Peer(x)]
          /\ delivered'[x] = delivered[x]
          /\ Counting(x)' => Counting(x)

\* The end goes on with the record only if it opens.
ReadsNext(x) ==
    /\ Incoming(x)
    /\ wire'[Peer(x)] = Tail(wire[Peer(x)])
    /\ Listening(x)' =>
          /\ Listening(x)
          /\ IF Upcoming(x).kind \in KeyUpdates
             THEN /\ readState'[x] = [gen |-> secrets[x][Peer(x)] + 1,
                                      seq |-> 0]
                  /\ secrets'[x][Peer(x)] = secrets[x][Peer(x)] + 1
             ELSE /\ readState'[x] = [gen |-> readState[x].gen,
                                      seq |-> readState[x].seq + 1]
                  /\ secrets'[x][Peer(x)] = secrets[x][Peer(x)]
          /\ Counting(x)' =>
                /\ Counting(x)
                /\ delivered'[x] = IF Upcoming(x).kind = "application_data"
                                   THEN Upcoming(x).number ELSE delivered[x]

ReceiverStep(x) == ReadsNone(x) \/ ReadsNext(x)

Still(d) ==
    UNCHANGED <<closed[d], at[d], out[d], reported[d], sockOpen[d],
                readState[d], writeState[d], secrets[d], written[d],
                delivered[d]>>

Moves(x) ==
    /\ broken' = broken
    /\ Still(Peer(x))
    /\ closed[x] => closed'[x]
    /\ sockOpen'[x] => sockOpen[x]
    /\ closed'[x] \/ reported'[x] \in {reported[x], "error"}
    /\ at'[x] \in Salvaging => Unsendable(x)
    /\ SenderStep(x)
    /\ ReceiverStep(x)

-----------------------------------------------------------------------------
(***************************************************************************)
(* The kinds of steps keep the invariant.                                  *)
(***************************************************************************)

LEMMA StreamTypes ==
    ASSUME TypeOK, NEW e \in Ends
    PROVE  /\ wire[e] \in Seq(Records)
           /\ readState[e] \in States
           /\ writeState[e] \in States
           /\ secrets[e][e] \in Nat /\ secrets[e][Peer(e)] \in Nat
           /\ written[e] \in Nat /\ delivered[e] \in Nat
           /\ out[e] \in Records \cup {NoRecord}
           /\ NoRecord \notin Records
           /\ closed[e] \in BOOLEAN /\ sockOpen[e] \in BOOLEAN
           /\ broken \in BOOLEAN
<1>1. NoRecord \notin Records
  BY DEF NoRecord, Records, Kinds
<1> QED
  BY <1>1, PeerType
  DEF TypeOK, KeyTypes, EndTypes, OpTypes, NetTypes, AppTypes

LEMMA AppendEnds ==
    ASSUME NEW w \in Seq(Records), NEW r \in Records
    PROVE  /\ Append(w, r) # <<>>
           /\ Append(w, r)[Len(Append(w, r))] = r
           /\ w = <<>> => Append(w, r)[1] = r
           /\ w # <<>> => Append(w, r)[1] = w[1]
<1> DEFINE v == Append(w, r)
<1>1. /\ Len(w) \in Nat /\ Len(v) = Len(w) + 1
      /\ \A i \in 1..Len(w) : v[i] = w[i]
      /\ v[Len(w) + 1] = r
  OBVIOUS
<1>2. w # <<>> => Len(w) # 0
  BY EmptySeq
<1>3. w = <<>> => Len(w) = 0
  OBVIOUS
<1> HIDE DEF v
<1>4. v # <<>>
  BY <1>1
<1>5. v[1] = IF w = <<>> THEN r ELSE w[1]
  BY <1>1, <1>2, <1>3
<1> QED
  BY <1>1, <1>4, <1>5 DEF v

LEMMA RecordTypes ==
    ASSUME NEW r \in Records
    PROVE  r.gen \in Nat \cup {Plain} /\ r.seq \in Nat /\ r.number \in Nat
BY DEF Records

\* What one end sends, seen from the other, which keeps still.
LEMMA SenderSide ==
    ASSUME StreamInv, NEW x \in Ends, NEW y \in Ends, y = Peer(x), x = Peer(y),
           Moves(x), TypeOK'
    PROVE  Direction(y)'
<1>1. /\ Listening(y)' <=> Listening(y)
      /\ Counting(y)' <=> Counting(y)
      /\ Unsendable(x)' <=> Unsendable(x)
      /\ readState'[y] = readState[y]
      /\ delivered'[y] = delivered[y]
      /\ secrets'[y] = secrets[y]
      /\ closed[x] => closed'[x]
      /\ closed'[x] \/ reported'[x] \in {reported[x], "error"}
      /\ at'[x] \in Salvaging => Unsendable(x)
  BY DEF Moves, Still, Listening, Counting, Unsendable
<1>2. InOrder(y) /\ Linked(y, x) /\ Sender(x)
  BY DEF StreamInv, Direction
<1>3. TypeOK /\ SafeEnd(x)
  BY DEF StreamInv, SafetyInv
<1>4. /\ wire[x] \in Seq(Records) /\ wire'[x] \in Seq(Records)
      /\ out[x] \in Records \cup {NoRecord} /\ NoRecord \notin Records
      /\ written[x] \in Nat /\ written'[x] \in Nat
      /\ writeState[x] \in States /\ readState[y] \in States
      /\ secrets[x][x] \in Nat
      /\ out[x] # NoRecord => out[x].number \in Nat
      /\ \A i \in 1..Len(wire[x]) : wire[x][i].number \in Nat
  <2>1. wire'[x] \in Seq(Records) /\ written'[x] \in Nat
    BY DEF TypeOK, NetTypes, AppTypes
  <2>2. \A i \in 1..Len(wire[x]) : wire[x][i] \in Records
    BY <1>3, StreamTypes
  <2> QED
    BY <1>3, <2>1, <2>2, StreamTypes, RecordTypes
<1>5. CASE SealsNext(x) \/ Waits(x) \/ Leaves(x)
  <2>1. wire'[x] = wire[x] /\ written[x] <= written'[x]
    BY <1>4, <1>5 DEF SealsNext, Waits, Leaves, Sealed, Numbered
  <2>2. InOrder(y)'
    BY <1>1, <1>2, <2>1 DEF InOrder, Begins
  <2>3. Sender(x)'
    <3>1. \A i \in 1..Len(wire'[x]) : wire'[x][i].number <= written'[x]
      BY <1>2, <1>4, <2>1 DEF Sender
    <3>2. out'[x] # NoRecord =>
              /\ out'[x].kind \in KeyUpdates <=> at'[x] \in Updating
              /\ out'[x].number <= written'[x]
      BY <1>4, <1>5 DEF SealsNext, Waits, Leaves, Sealed
    <3> QED
      BY <1>1, <1>2, <3>1, <3>2 DEF Sender
  <2>4. ASSUME SealsNext(x) PROVE Linked(y, x)'
    <3>1. /\ StateAfter(y, wire[x])' = StateAfter(y, wire[x])
          /\ NumberAfter(y, wire[x])' = NumberAfter(y, wire[x])
          /\ NumberKnown(y, wire[x])' <=> NumberKnown(y, wire[x])
      BY <1>1, <2>1 DEF StateAfter, NumberAfter, NumberKnown
    <3>2. SUFFICES ASSUME Listening(y), ~closed[x], ~Unsendable(x)
                   PROVE  /\ out'[x] # NoRecord
                          /\ LinkedSealed(y, x, wire[x])'
      BY <1>1 DEF Linked
    <3>3. LinkedNone(y, x, wire[x])
      BY <1>2, <2>4, <3>2 DEF Linked, SealsNext
    <3> QED
      BY <1>4, <2>4, <3>1, <3>3
      DEF SealsNext, Sealed, LinkedNone, LinkedSealed, Matches
  <2>5. ASSUME Waits(x) PROVE Linked(y, x)'
    BY <1>1, <1>2, <2>5
    DEF Waits, Linked, LinkedNone, StateAfter, NumberAfter, NumberKnown
  <2>6. ASSUME Leaves(x) PROVE Linked(y, x)'
    BY <1>1, <2>6 DEF Leaves, Linked
  <2>7. Linked(y, x)'
    BY <1>5, <2>4, <2>5, <2>6
  <2> QED
    BY <2>2, <2>3, <2>7 DEF Direction
<1>6. CASE Puts(x)
  <2>1. Sender(x)'
    <3>1. written[x] <= written'[x]
      BY <1>4, <1>6 DEF Puts, AfterPut, Sealed, Numbered
    <3>2. \A i \in 1..Len(wire'[x]) : wire'[x][i].number <= written'[x]
      <4>2. out[x].number <= written'[x]
        BY <1>2, <1>4, <1>6, <3>1 DEF Sender, Puts
      <4>3. \A i \in 1..Len(wire[x]) : wire[x][i].number <= written'[x]
        BY <1>2, <1>4, <3>1 DEF Sender
      <4>4. \A i \in 1..Len(Append(wire[x], out[x])) :
                Append(wire[x], out[x])[i] =
                    IF i \in 1..Len(wire[x]) THEN wire[x][i] ELSE out[x]
        BY <1>4
      <4> QED
        BY <1>6, <4>2, <4>3, <4>4 DEF Puts
    <3>3. out'[x] # NoRecord =>
              /\ out'[x].kind \in KeyUpdates <=> at'[x] \in Updating
              /\ out'[x].number <= written'[x]
      BY <1>4, <1>6 DEF Puts, AfterPut, Sealed
    <3> QED
      BY <1>1, <1>2, <3>2, <3>3 DEF Sender
  <2>2. CASE ~sockOpen[y]
    <3>1. wire'[x] = wire[x] /\ Unsendable(x)
      BY <1>6, <2>2 DEF Puts, Unsendable
    <3>2. InOrder(y)' /\ Linked(y, x)'
      BY <1>1, <1>2, <3>1 DEF InOrder, Begins, Linked
    <3> QED
      BY <2>1, <3>2 DEF Direction
  <2>3. CASE sockOpen[y] /\ Listening(y)
    <3> DEFINE w == wire[x]
               r == out[x]
    <3>1. /\ r \in Records /\ wire'[x] = Append(w, r) /\ ~Unsendable(x)
          /\ out[x] # NoRecord
      BY <1>4, <1>6, <2>3 DEF Puts, Unsendable
    <3>2. ~closed[x] /\ NumbersBelow(x)
      BY <1>3, <3>1 DEF SafeEnd, TypeOK, OpTypes, Sending
    <3>3. LinkedSealed(y, x, w)
      BY <1>2, <2>3, <3>1, <3>2 DEF Linked
    <3>4. /\ Append(w, r) # <<>>
          /\ Append(w, r)[Len(Append(w, r))] = r
          /\ w = <<>> => Append(w, r)[1] = r
          /\ w # <<>> => Append(w, r)[1] = w[1]
      BY <1>4, <3>1, AppendEnds
    <3>5. Chained(Append(w, r))
      BY <1>2, <1>4, <2>3, <3>1, <3>3, AppendChained
      DEF InOrder, LinkedSealed, StateAfter, NumberAfter, NumberKnown, Follows
    <3>6. Begins(y, Append(w, r))
      BY <1>2, <2>3, <3>3, <3>4
      DEF InOrder, Begins, LinkedSealed, StateAfter, NumberAfter, NumberKnown
    <3>7. InOrder(y)'
      BY <1>1, <1>2, <2>3, <3>1, <3>5, <3>6 DEF InOrder, Begins
    <3>8. ~closed'[x] => IF out'[x] = NoRecord
                         THEN LinkedNone(y, x, wire[x])'
                         ELSE LinkedSealed(y, x, wire[x])'
      <4>1. /\ StateAfter(y, wire[x])' = AfterRecord(r)
            /\ NumberAfter(y, wire[x])' = r.number
        BY <3>1, <3>4 DEF StateAfter, NumberAfter
      <4>2. /\ writeState[x] = [gen |-> r.gen, seq |-> r.seq + 1]
            /\ written[x] = r.number
            /\ writeState[x].gen = secrets[x][x]
        BY <3>2, <3>3 DEF LinkedSealed, NumbersBelow
      <4>3. r.gen \in Nat \cup {Plain} /\ r.seq \in Nat
        BY <3>1 DEF Records
      <4>4. r.gen = secrets[x][x]
        BY <4>2, <4>3
      <4> HIDE DEF r
      <4>5. CASE r.kind \notin KeyUpdates /\ Sealed(x)
        <5>1. AfterRecord(r) = writeState[x]
          BY <4>2, <4>5 DEF AfterRecord
        <5>2. LinkedSealed(y, x, wire[x])' /\ out'[x] # NoRecord
          BY <1>4, <4>1, <4>2, <4>5, <5>1
          DEF LinkedSealed, Sealed, Matches, Records, States
        <5> QED
          BY <5>2
      <4>6. CASE /\ out'[x] = NoRecord
                 /\ written'[x] = written[x]
                 /\ r.kind \notin KeyUpdates
                 /\ writeState'[x] = writeState[x]
        BY <4>1, <4>2, <4>6 DEF LinkedNone, AfterRecord
      <4>7. CASE /\ out'[x] = NoRecord
                 /\ written'[x] = written[x]
                 /\ r.kind \in KeyUpdates
                 /\ writeState'[x] = [gen |-> secrets[x][x] + 1, seq |-> 0]
        BY <4>1, <4>2, <4>4, <4>7 DEF LinkedNone, AfterRecord
      <4> QED
        BY <1>6, <4>5, <4>6, <4>7 DEF Puts, AfterPut, r
    <3>9. Linked(y, x)'
      BY <3>8 DEF Linked
    <3> QED
      BY <2>1, <3>7, <3>9 DEF Direction
  <2>4. CASE ~Listening(y)
    BY <1>1, <2>1, <2>4 DEF Direction, InOrder, Linked
  <2> QED
    BY <1>3, <2>2, <2>3, <2>4
<1> QED
  BY <1>5, <1>6 DEF Moves, SenderStep

\* What an end reads: the record it goes on with is the first under way, and
\* the rest follows that one.
LEMMA ReceiverSide ==
    ASSUME StreamInv, NEW x \in Ends, NEW y \in Ends, y = Peer(x), x = Peer(y),
           Moves(x)
    PROVE  Direction(x)'
<1>1. /\ broken' = broken
      /\ sockOpen'[x] => sockOpen[x]
      /\ UNCHANGED <<closed[y], at[y], out[y], reported[y], writeState[y],
                     written[y]>>
  BY DEF Moves, Still
<1>2. Unsendable(y) => Unsendable(y)'
  BY <1>1 DEF Unsendable
<1>3. InOrder(x) /\ Linked(x, y) /\ Sender(y)
  BY DEF StreamInv, Direction
<1>4. wire[y] \in Seq(Records) /\ delivered[x] \in Nat
  BY StreamTypes DEF StreamInv, SafetyInv
<1>5. CASE ReadsNone(x)
  <2>1. wire'[y] = wire[y]
    BY <1>5 DEF ReadsNone
  <2>2. InOrder(x)'
    BY <1>3, <1>5 DEF ReadsNone, InOrder, Begins
  <2>3. Sender(y)'
    BY <1>1, <1>2, <1>3, <2>1 DEF Sender
  <2>4. Linked(x, y)'
    <3> SUFFICES ASSUME Listening(x)', ~closed[y], ~Unsendable(y)
                 PROVE  IF out[y] = NoRecord
                        THEN LinkedNone(x, y, wire[y])'
                        ELSE LinkedSealed(x, y, wire[y])'
      BY <1>1, <1>2 DEF Linked
    <3>1. /\ StateAfter(x, wire[y])' = StateAfter(x, wire[y])
          /\ NumberAfter(x, wire[y])' = NumberAfter(x, wire[y])
          /\ NumberKnown(x, wire[y])' => NumberKnown(x, wire[y])
      BY <1>5 DEF ReadsNone, StateAfter, NumberAfter, NumberKnown
    <3>2. IF out[y] = NoRecord THEN LinkedNone(x, y, wire[y])
                               ELSE LinkedSealed(x, y, wire[y])
      BY <1>3, <1>5 DEF ReadsNone, Linked
    <3> QED
      BY <1>1, <3>1, <3>2 DEF LinkedNone, LinkedSealed
  <2> QED
    BY <2>2, <2>3, <2>4 DEF Direction
<1>6. CASE ReadsNext(x)
  <2> DEFINE w == wire[y]
             v == Tail(w)
  <2>1. w # <<>> /\ wire'[y] = v /\ Upcoming(x) = w[1]
    BY <1>4, <1>6 DEF ReadsNext, Incoming, Upcoming
  <2>2. /\ Len(w) \in Nat /\ Len(v) = Len(w) - 1
        /\ \A i \in 1..Len(v) : v[i] = w[i + 1]
        /\ w[1] \in Records
        /\ v = <<>> => Len(w) = 1
    <3>1. /\ Len(w) \in Nat /\ Len(w) >= 1
          /\ v \in Seq(Records) /\ Len(v) = Len(w) - 1
          /\ \A i \in 1..Len(v) : v[i] = w[i + 1]
          /\ w[1] \in Records
      BY <1>4, <2>1
    <3>2. v = <<>> => Len(v) = 0
      BY EmptySeq
    <3> HIDE DEF v, w
    <3> QED
      BY <3>1, <3>2
  <2>3. Sender(y)'
    <3>1. \A i \in 1..Len(v) : v[i].number <= written[y]
      BY <1>3, <2>2 DEF Sender
    <3> HIDE DEF v
    <3> QED
      BY <1>1, <1>2, <1>3, <2>1, <3>1 DEF Sender
  <2>4. SUFFICES ASSUME Listening(x)' PROVE InOrder(x)' /\ Linked(x, y)'
    BY <2>3 DEF Direction, InOrder, Linked
  <2>5. Listening(x) /\ (Counting(x)' => Counting(x))
    BY <1>6, <2>4 DEF ReadsNext
  <2>6. /\ readState[x].gen = secrets[x][y]
        /\ Matches(w[1], readState[x])
        /\ Counting(x) => Numbered(w[1], delivered[x])
        /\ Chained(w)
    BY <1>3, <2>1, <2>5 DEF InOrder, Begins
  <2>7. /\ readState'[x] = AfterRecord(w[1])
        /\ readState'[x].gen = secrets'[x][y]
        /\ Counting(x)' => delivered'[x] = w[1].number
    <3>1. /\ readState'[x] = AfterRecord(w[1])
          /\ readState'[x].gen = secrets'[x][y]
      <4>1. IF w[1].kind \in KeyUpdates
            THEN /\ readState'[x] = [gen |-> secrets[x][y] + 1, seq |-> 0]
                 /\ secrets'[x][y] = secrets[x][y] + 1
            ELSE /\ readState'[x] = [gen |-> readState[x].gen,
                                     seq |-> readState[x].seq + 1]
                 /\ secrets'[x][y] = secrets[x][y]
        BY <1>6, <2>1, <2>4 DEF ReadsNext
      <4>2. /\ secrets[x][y] = w[1].gen
            /\ readState[x].gen = w[1].gen
            /\ readState[x].seq = w[1].seq
        BY <2>6 DEF Matches
      <4> HIDE DEF v, w
      <4>3. CASE w[1].kind \in KeyUpdates
        BY <4>1, <4>2, <4>3 DEF AfterRecord
      <4>4. CASE w[1].kind \notin KeyUpdates
        BY <4>1, <4>2, <4>4 DEF AfterRecord
      <4> QED
        BY <4>3, <4>4
    <3>2. Counting(x)' => delivered'[x] = w[1].number
      BY <1>6, <2>1, <2>4, <2>6 DEF ReadsNext, Numbered
    <3> QED
      BY <3>1, <3>2
  <2>8. /\ Chained(v)
        /\ v # <<>> => Follows(v[1], w[1]) /\ v[Len(v)] = w[Len(w)]
    BY <1>4, <2>1, <2>6, TailChained
  <2> HIDE DEF v
  <2>9. InOrder(x)'
    BY <2>1, <2>7, <2>8 DEF InOrder, Begins, Follows
  <2>10. Linked(x, y)'
    <3> SUFFICES ASSUME ~closed[y], ~Unsendable(y)
                 PROVE  IF out[y] = NoRecord
                        THEN LinkedNone(x, y, wire[y])'
                        ELSE LinkedSealed(x, y, wire[y])'
      BY <1>1, <1>2 DEF Linked
    <3>1. /\ StateAfter(x, wire[y])' = StateAfter(x, w)
          /\ NumberKnown(x, wire[y])' =>
                NumberAfter(x, wire[y])' = NumberAfter(x, w)
          /\ NumberKnown(x, w)
      BY <2>1, <2>2, <2>7, <2>8 DEF StateAfter, NumberAfter, NumberKnown
    <3>2. IF out[y] = NoRecord THEN LinkedNone(x, y, w)
                               ELSE LinkedSealed(x, y, w)
      BY <1>3, <2>5 DEF Linked
    <3> QED
      BY <1>1, <3>1, <3>2 DEF LinkedNone, LinkedSealed
  <2> QED
    BY <2>9, <2>10
<1> QED
  BY <1>5, <1>6 DEF Moves, ReceiverStep

\* A break leaves the first records under way, and nothing follows them.
LEMMA BreakKeeps ==
    ASSUME StreamInv, Break, NEW e \in Ends
    PROVE  Direction(e)'
<1> DEFINE p == Peer(e)
           w == wire[p]
<1>1. p \in Ends /\ w \in Seq(Records) /\ Direction(e)
  BY PeerType, StreamTypes DEF StreamInv, SafetyInv
<1>2. PICK c \in 0..Len(w) : wire'[p] = SubSeq(w, 1, c)
  <2>1. PICK c \in 0..Len(wire[Client]), s \in 0..Len(wire[Server]) :
          wire' = [wire EXCEPT ![Client] = SubSeq(@, 1, c),
                               ![Server] = SubSeq(@, 1, s)]
    BY DEF Break
  <2>2. CASE p = Client
    BY <2>1, <2>2, EndsAssumption
    DEF StreamInv, SafetyInv, TypeOK, NetTypes, Ends
  <2>3. CASE p = Server
    BY <2>1, <2>3, EndsAssumption
    DEF StreamInv, SafetyInv, TypeOK, NetTypes, Ends
  <2> QED
    BY <1>1, <2>2, <2>3 DEF Ends
<1>3. /\ broken'
      /\ UNCHANGED <<closed, at, out, reported, readState, writeState, secrets,
                     written, delivered, sockOpen>>
  BY DEF Break, keyVars, endVars, opVars, appVars, pastVars
<1>4. /\ Len(wire'[p]) = c
      /\ \A i \in 1..c : wire'[p][i] = w[i] /\ i \in 1..Len(w)
      /\ wire'[p] # <<>> => wire'[p][1] = w[1] /\ w # <<>>
  <2>1. Len(w) \in Nat /\ Len(<<>>) = 0
    BY <1>1, EmptySeq
  <2>2. /\ Len(SubSeq(w, 1, c)) = c
        /\ \A i \in 1..c : SubSeq(w, 1, c)[i] = w[i]
        /\ SubSeq(w, 1, c) \in Seq(Records)
    BY <1>1
  <2>3. SubSeq(w, 1, c) # <<>> => 1 \in 1..c /\ w # <<>>
    BY <2>1, <2>2, EmptySeq
  <2> QED
    BY <1>2, <2>1, <2>2, <2>3
<1>5. Chained(w) => Chained(wire'[p])
  BY <1>1, <1>2, PrefixChained
<1>6. InOrder(e)'
  BY <1>1, <1>3, <1>4, <1>5
  DEF Direction, InOrder, Begins, Listening, Counting
<1>7. Linked(e, p)' /\ Sender(p)'
  BY <1>1, <1>3, <1>4 DEF Direction, Linked, Sender, Unsendable
<1> QED
  BY <1>6, <1>7 DEF Direction

\* A damaged record is still the next one.
LEMMA DamageKeeps ==
    ASSUME StreamInv, Damage, NEW e \in Ends
    PROVE  Direction(e)'
<1> DEFINE p == Peer(e)
           w == wire[p]
           v == wire'[p]
<1>1. p \in Ends /\ w \in Seq(Records) /\ v \in Seq(Records) /\ Direction(e)
  BY PeerType, StreamTypes, DamageEffect DEF StreamInv, SafetyInv
<1>2. UNCHANGED <<closed, at, out, reported, readState, writeState, secrets,
                  written, delivered, sockOpen, broken>>
  BY DEF Damage, keyVars, endVars, opVars, appVars, pastVars
<1>3. /\ Len(v) = Len(w)
      /\ \A i \in 1..Len(w) : /\ v[i].kind = w[i].kind
                              /\ v[i].gen = w[i].gen
                              /\ v[i].seq = w[i].seq
                              /\ v[i].number = w[i].number
  BY <1>1, DamageEffect DEF StreamInv, SafetyInv
<1> HIDE DEF v, w
<1>4. /\ v = <<>> <=> w = <<>>
      /\ w # <<>> => 1 \in 1..Len(w) /\ Len(w) \in 1..Len(w)
  BY <1>1, <1>3, EmptySeq
<1>5. \A i \in 1..Len(w) : AfterRecord(v[i]) = AfterRecord(w[i])
  BY <1>3 DEF AfterRecord
<1>6. Chained(w) => Chained(v)
  <2> SUFFICES ASSUME Chained(w), NEW i \in 1..(Len(w) - 1)
               PROVE  Follows(v[i + 1], v[i])
    BY <1>3 DEF Chained
  <2>1. i \in 1..Len(w) /\ i + 1 \in 1..Len(w)
    BY <1>1
  <2>2. Follows(w[i + 1], w[i])
    BY DEF Chained
  <2> QED
    BY <1>3, <1>5, <2>1, <2>2 DEF Follows, Matches, Numbered
<1>7. /\ w # <<>> => v[1].kind = w[1].kind /\ v[1].gen = w[1].gen
                     /\ v[1].seq = w[1].seq /\ v[1].number = w[1].number
      /\ StateAfter(e, v) = StateAfter(e, w)
      /\ NumberAfter(e, v) = NumberAfter(e, w)
      /\ NumberKnown(e, v) <=> NumberKnown(e, w)
  BY <1>3, <1>4, <1>5 DEF StateAfter, NumberAfter, NumberKnown
<1>8. InOrder(e)'
  BY <1>1, <1>2, <1>4, <1>6, <1>7
  DEF Direction, InOrder, Begins, Listening, Counting, Matches, Numbered, v, w
<1>9. Linked(e, p)'
  <2> SUFFICES ASSUME Listening(e), ~closed[p], ~Unsendable(p)
               PROVE  IF out[p] = NoRecord THEN LinkedNone(e, p, wire[p])'
                                           ELSE LinkedSealed(e, p, wire[p])'
    BY <1>2 DEF Linked, Listening, Unsendable
  <2>1. /\ StateAfter(e, wire[p])' = StateAfter(e, w)
        /\ NumberAfter(e, wire[p])' = NumberAfter(e, w)
        /\ NumberKnown(e, wire[p])' <=> NumberKnown(e, w)
    BY <1>2, <1>7 DEF StateAfter, NumberAfter, NumberKnown, Counting, v
  <2>2. IF out[p] = NoRecord THEN LinkedNone(e, p, w)
                             ELSE LinkedSealed(e, p, w)
    BY <1>1 DEF Direction, Linked, w
  <2> QED
    BY <1>2, <2>1, <2>2 DEF LinkedNone, LinkedSealed
<1>10. Sender(p)'
  BY <1>1, <1>2, <1>3 DEF Direction, Sender, Unsendable, v, w
<1> QED
  BY <1>8, <1>9, <1>10 DEF Direction

LEMMA InitStream == Init => StreamInv
<1> SUFFICES ASSUME Init, NEW e \in Ends PROVE Direction(e)
  BY InitSafe DEF StreamInv
<1> DEFINE p == Peer(e)
           w == wire[p]
<1>1. p \in Ends
  BY PeerType
<1>2. PICK n \in Nat :
        /\ writeState[p] = [gen |-> 0, seq |-> n]
        /\ w = [i \in 1..n |-> [kind |-> "new_session_ticket", gen |-> 0,
                                seq |-> i - 1, number |-> 0, intact |-> TRUE]]
  <2>1. PICK n \in 0..MaxTickets :
        /\ writeState = [d \in Ends |->
                           [gen |-> 0, seq |-> IF d = Server THEN n ELSE 0]]
        /\ wire = [d \in Ends |->
                      [i \in 1..(IF d = Server THEN n ELSE 0) |->
                          [kind |-> "new_session_ticket", gen |-> 0,
                           seq |-> i - 1, number |-> 0, intact |-> TRUE]]]
    BY DEF Init
  <2>2. n \in Nat
    BY BoundsAssumption
  <2>3. CASE p = Server
    BY <1>1, <2>1, <2>2, <2>3
  <2>4. CASE p # Server
    BY <1>1, <2>1, <2>4
  <2> QED
    BY <2>3, <2>4
<1>3. /\ readState[e] = [gen |-> 0, seq |-> 0]
      /\ secrets[e][p] = 0
      /\ delivered[e] = 0 /\ written[p] = 0
      /\ out[p] = NoRecord
      /\ at[p] = "idle" /\ reported[p] = "nothing"
  BY <1>1 DEF Init
<1>4. /\ Len(w) = n
      /\ \A i \in 1..n : /\ w[i].kind = "new_session_ticket"
                         /\ w[i].gen = 0
                         /\ w[i].seq = i - 1
                         /\ w[i].number = 0
      /\ w \in Seq(Records)
  <2>1. w \in Seq(Records)
    BY <1>1, InitTypes, StreamTypes
  <2> QED
    BY <1>2, <2>1
<1> HIDE DEF w
<1>5. /\ w = <<>> => n = 0
      /\ w # <<>> => n # 0 /\ 1 \in 1..n /\ n \in 1..n
  BY <1>2, <1>4, EmptySeq
<1>6. Begins(e, w)
  BY <1>3, <1>4, <1>5 DEF Begins, Matches, Numbered
<1>7. Chained(w)
  <2> SUFFICES ASSUME NEW i \in 1..(n - 1) PROVE Follows(w[i + 1], w[i])
    BY <1>4 DEF Chained
  <2>1. i \in 1..n /\ i + 1 \in 1..n
    OBVIOUS
  <2> QED
    BY <1>4, <2>1 DEF Follows, Matches, Numbered, AfterRecord, KeyUpdates
<1>8. LinkedNone(e, p, w)
  <2>1. CASE w = <<>>
    BY <1>2, <1>3, <1>5, <2>1 DEF LinkedNone, StateAfter, NumberAfter
  <2>2. CASE w # <<>>
    <3>1. AfterRecord(w[n]) = [gen |-> 0, seq |-> n] /\ w[n].number = 0
      BY <1>2, <1>4, <1>5, <2>2 DEF AfterRecord, KeyUpdates
    <3> QED
      BY <1>2, <1>3, <1>4, <2>2, <3>1 DEF LinkedNone, StateAfter, NumberAfter
  <2> QED
    BY <2>1, <2>2
<1>9. InOrder(e) /\ Linked(e, p)
  BY <1>3, <1>6, <1>7, <1>8 DEF InOrder, Linked, w
<1>10. Sender(p)
  BY <1>3, <1>4 DEF Sender, Salvaging, w
<1> QED
  BY <1>9, <1>10 DEF Direction

-----------------------------------------------------------------------------
(***************************************************************************)
(* Each action is of one kind for the stream its end sends and of one for  *)
(* the stream it reads.                                                    *)
(***************************************************************************)

\* The record that is sealed follows the one before it.
LEMMA SealFollows ==
    ASSUME TypeOK, NEW x \in Ends, NEW kind \in Kinds, Seal(x, kind)
    PROVE  /\ out'[x] \in Records
           /\ out'[x].kind = kind
           /\ Matches(out'[x], writeState[x])
           /\ Numbered(out'[x], written[x])
           /\ writeState'[x] = [gen |-> writeState[x].gen,
                                seq |-> writeState[x].seq + 1]
           /\ written'[x] = out'[x].number
           /\ \A d \in Ends \ {x} :
                 UNCHANGED <<out[d], writeState[d], written[d]>>
<1>1. written' = [written EXCEPT ![x] = IF kind = "application_data"
                                        THEN written[x] + 1 ELSE written[x]]
  BY DEF Seal
<1>2. /\ written'[x] = IF kind = "application_data"
                       THEN written[x] + 1 ELSE written[x]
      /\ \A d \in Ends \ {x} : written'[d] = written[d]
  BY <1>1 DEF TypeOK, AppTypes
<1> QED
  BY <1>2, SealEffect DEF Matches, Numbered

\* An end that seals its next record.
LEMMA SealMoves ==
    ASSUME TypeOK, NEW x \in Ends, NEW y \in Ends, y = Peer(x), y # x,
           NEW kind \in Kinds, NEW where \in Sending,
           Seal(x, kind), Goto(x, where),
           kind \in KeyUpdates <=> where \in Updating,
           at[x] \notin Sending,
           UNCHANGED <<closed, sockOpen, reported, broken, delivered,
                       readState[y], secrets[y], wire[x]>>,
           ReceiverStep(x)
    PROVE  Moves(x)
<1>1. at'[x] = where /\ at'[y] = at[y]
  BY GotoEffect
<1>2. out[x] = NoRecord
  BY DEF TypeOK, OpTypes
<1>3. SealsNext(x)
  BY <1>1, <1>2, SealFollows DEF SealsNext, Sealed
<1>4. Still(y)
  BY <1>1, SealFollows DEF Still
<1>5. at'[x] \notin Salvaging
  BY <1>1 DEF Sending, Salvaging
<1> QED
  BY <1>3, <1>4, <1>5 DEF Moves, SenderStep

\* An end that shuts down, after a record it sent, after one it got, or
\* after neither.
LEMMA ShutdownMoves ==
    ASSUME TypeOK, NEW x \in Ends, NEW keep \in BOOLEAN,
           NEW what \in {"nothing", "eof", "error", "closed"},
           Shutdown(x, keep), Finish(x, what),
           UNCHANGED <<secrets, broken, appVars>>,
           \/ UNCHANGED wire
           \/ Incoming(x) /\ Take(x)
           \/ at[x] \in Sending /\ Put(x)
    PROVE  Moves(x)
<1> DEFINE y == Peer(x)
<1>1. y \in Ends /\ y # x
  BY PeerType
<1>2. /\ closed'[x] /\ out'[x] = NoRecord /\ at'[x] = "idle"
      /\ written'[x] = written[x]
  BY ShutdownEffect, EndSessionEffect, FinishEffect DEF appVars
<1>3. Still(y)
  BY <1>1, ShutdownEffect, EndSessionEffect, FinishEffect DEF Still, appVars
<1>4. sockOpen'[x] => sockOpen[x]
  BY ShutdownEffect DEF EndSession, TypeOK, EndTypes
<1>5. ~Listening(x)' /\ at'[x] \notin Salvaging
  BY <1>2 DEF Listening, Salvaging
<1>6. CASE UNCHANGED wire
  BY <1>2, <1>3, <1>4, <1>5, <1>6
  DEF Moves, SenderStep, ReceiverStep, Leaves, ReadsNone
<1>7. CASE Incoming(x) /\ Take(x)
  <2>1. wire'[y] = Tail(wire[y]) /\ wire'[x] = wire[x]
    BY <1>7, TakeEffect
  <2> QED
    BY <1>2, <1>3, <1>4, <1>5, <1>7, <2>1
    DEF Moves, SenderStep, ReceiverStep, Leaves, ReadsNext
<1>8. CASE at[x] \in Sending /\ Put(x)
  <2>1. wire'[y] = wire[y]
    BY <1>1, <1>8, PutEffect
  <2>2. Puts(x)
    BY <1>2, <1>8, PutEffect DEF Puts, AfterPut
  <2> QED
    BY <1>2, <1>3, <1>4, <1>5, <2>1, <2>2
    DEF Moves, SenderStep, ReceiverStep, ReadsNone
<1> QED
  BY <1>6, <1>7, <1>8

\* An end between two records reads none.
LEMMA QuietReads ==
    ASSUME NEW x \in Ends, NEW y \in Ends, y = Peer(x),
           at[x] \notin {"awaiting", "send_error", "send_error_closing"},
           wire'[y] = wire[y],
           UNCHANGED <<closed[x], reported[x], readState[x], secrets[x][y],
                       delivered[x]>>
    PROVE  ReceiverStep(x)
BY DEF ReceiverStep, ReadsNone, Listening, Counting

LEMMA CallsMoves ==
    ASSUME TypeOK, NEW x \in Ends, Calls(x) PROVE Moves(x)
<1> DEFINE y == Peer(x)
<1>0. y \in Ends /\ y # x
  BY PeerType
<1>1. CASE Write(x)
  <2>1. ReceiverStep(x)
    BY <1>0, <1>1, QuietReads DEF Write, endVars, netVars
  <2> QED
    BY <1>0, <1>1, <2>1, SealMoves
    DEF Write, endVars, netVars, Kinds, KeyUpdates, Sending, Updating
<1>2. CASE WriteClosed(x)
  BY <1>2, ShutdownMoves, SettingsAssumption DEF WriteClosed, netVars
<1>3. CASE Read(x)
  <2>1. at'[x] = "reading" /\ at'[y] = at[y]
    BY <1>0, <1>3, GotoEffect DEF Read, Receiving
  <2>2. ReceiverStep(x)
    BY <1>0, <1>3, QuietReads
    DEF Read, keyVars, endVars, netVars, appVars, pastVars
  <2>3. Waits(x)
    BY <1>3 DEF Read, Waits, keyVars, netVars, appVars, TypeOK, OpTypes, Sending
  <2>4. Still(y)
    BY <1>3, <2>1 DEF Read, Still, keyVars, endVars, appVars, pastVars
  <2> QED
    BY <1>3, <2>1, <2>2, <2>3, <2>4
    DEF Read, Moves, SenderStep, endVars, netVars, pastVars, Salvaging
<1>4. CASE ReadClosed(x)
  <2>1. /\ closed'[x] /\ out'[x] = NoRecord /\ at'[x] = "idle"
        /\ wire' = wire /\ written' = written
    BY <1>4, FinishEffect DEF ReadClosed, endVars, netVars, appVars
  <2>2. Still(y)
    BY <1>0, <1>4, FinishEffect DEF ReadClosed, Still, keyVars, endVars, appVars
  <2> QED
    BY <1>4, <2>1, <2>2
    DEF ReadClosed, Moves, SenderStep, Leaves, ReceiverStep, ReadsNone,
        Listening, endVars, netVars, Salvaging
<1>5. CASE SendKeyUpdate(x)
  <2>1. ReceiverStep(x)
    BY <1>0, <1>5, QuietReads DEF SendKeyUpdate, endVars, netVars
  <2> QED
    BY <1>0, <1>5, <2>1, SealMoves
    DEF SendKeyUpdate, endVars, netVars, Kinds, KeyUpdates, Sending, Updating
<1>6. CASE Close(x)
  <2>1. ReceiverStep(x)
    BY <1>0, <1>6, QuietReads DEF Close, endVars, netVars
  <2> QED
    BY <1>0, <1>6, <2>1, SealMoves
    DEF Close, endVars, netVars, Kinds, KeyUpdates, Sending, Updating
<1> QED
  BY <1>1, <1>2, <1>3, <1>4, <1>5, <1>6 DEF Calls

\* What is known of an end that has sent its record and goes on.
LEMMA PutMoves ==
    ASSUME TypeOK, NEW x \in Ends, NEW y \in Ends, y = Peer(x), y # x,
           at[x] \in {"send_data", "send_update", "send_reply", "send_close"},
           Put(x), AfterPut(x),
           UNCHANGED <<closed, sockOpen, reported, broken, delivered, readState,
                       secrets[x][y], secrets[y],
                       at[y], out[y], writeState[y], written[y]>>,
           at'[x] \notin Salvaging
    PROVE  Moves(x)
<1>1. wire'[y] = wire[y] /\ Puts(x)
  BY PutEffect DEF Puts, Sending
<1>2. ReceiverStep(x)
  BY <1>1, QuietReads
<1>3. Still(y)
  BY DEF Still
<1> QED
  BY <1>1, <1>2, <1>3 DEF Moves, SenderStep

LEMMA SendsMoves ==
    ASSUME StreamInv, NEW x \in Ends, Sends(x) PROVE Moves(x)
<1> DEFINE y == Peer(x)
<1>0. TypeOK /\ y \in Ends /\ y # x
  BY PeerType DEF StreamInv, SafetyInv
<1>1. at[x] \in Sending => (out[x].kind \in KeyUpdates <=> at[x] \in Updating)
  <2>1. Sender(x)
    BY <1>0, PeerType DEF StreamInv, Direction
  <2> QED
    BY <1>0, <2>1 DEF Sender, TypeOK, OpTypes
<1>2. CASE FragmentSent(x)
  <2>1. AfterPut(x)
    BY <1>0, <1>1, <1>2, SealFollows
    DEF FragmentSent, AfterPut, Sealed, Kinds, KeyUpdates, Sending, Updating
  <2>2. UNCHANGED <<out[y], writeState[y], written[y]>>
    BY <1>0, <1>2, SealFollows DEF FragmentSent, Kinds
  <2> QED
    BY <1>0, <1>2, <2>1, <2>2, PutMoves DEF FragmentSent, endVars, Salvaging
<1>3. CASE WriteDone(x)
  <2>1. AfterPut(x)
    BY <1>0, <1>1, <1>3, FinishEffect
    DEF WriteDone, AfterPut, keyVars, appVars, Sending, Updating
  <2>2. /\ at'[x] = "idle"
        /\ UNCHANGED <<at[y], out[y], reported[y], reported[x]>>
    BY <1>0, <1>3, FinishEffect DEF WriteDone, Salvaging
  <2>3. reported' = reported
    BY <1>0, <1>3, <2>2 DEF WriteDone, Finish, TypeOK, PastTypes
  <2> QED
    BY <1>0, <1>3, <2>1, <2>2, <2>3, PutMoves
    DEF WriteDone, keyVars, endVars, appVars, Salvaging
<1>4. CASE KeyUpdateSent(x)
  <2>1. out'[x] = NoRecord /\ out'[y] = out[y]
    BY <1>0, <1>4 DEF KeyUpdateSent, TypeOK, OpTypes
  <2>2. AfterPut(x)
    BY <1>0, <1>1, <1>4, <2>1, SwitchWriteKeyEffect
    DEF KeyUpdateSent, AfterPut, appVars, Sending, Updating
  <2>3. at'[x] \in {"idle", "reading"} /\ at'[y] = at[y]
    BY <1>0, <1>4 DEF KeyUpdateSent, Goto, TypeOK, OpTypes
  <2> QED
    BY <1>0, <1>4, <2>1, <2>2, <2>3, SwitchWriteKeyEffect, PutMoves
    DEF KeyUpdateSent, endVars, appVars, pastVars, Salvaging
<1>5. CASE AnswerSent(x)
  BY <1>0, <1>5, ShutdownMoves DEF AnswerSent, Sending
<1>6. CASE ErrorSent(x)
  BY <1>0, <1>6, ShutdownMoves DEF ErrorSent, Sending
<1>7. CASE CloseSent(x)
  BY <1>0, <1>7, ShutdownMoves DEF CloseSent, Sending
<1>8. CASE CloseSentAwaiting(x)
  <2>1. out'[x] = NoRecord /\ out'[y] = out[y]
    BY <1>0, <1>8 DEF CloseSentAwaiting, TypeOK, OpTypes
  <2>2. AfterPut(x)
    BY <1>1, <1>8, <2>1
    DEF CloseSentAwaiting, AfterPut, keyVars, appVars, Sending, Updating
  <2>3. at'[x] = "awaiting" /\ at'[y] = at[y]
    BY <1>0, <1>8 DEF CloseSentAwaiting, Goto, TypeOK, OpTypes
  <2> QED
    BY <1>0, <1>8, <2>1, <2>2, <2>3, PutMoves
    DEF CloseSentAwaiting, keyVars, endVars, appVars, pastVars, Salvaging
<1> QED
  BY <1>2, <1>3, <1>4, <1>5, <1>6, <1>7, <1>8 DEF Sends

LEMMA FailsMoves ==
    ASSUME TypeOK, NEW x \in Ends, Fails(x) PROVE Moves(x)
<1> DEFINE y == Peer(x)
<1>0. y \in Ends /\ y # x
  BY PeerType
<1>1. CASE WriteFails(x)
  BY <1>1, ShutdownMoves, SettingsAssumption DEF WriteFails, netVars
<1>2. CASE KeyUpdateFails(x)
  <2>1. ReceiverStep(x)
    BY <1>0, <1>2, QuietReads
    DEF KeyUpdateFails, keyVars, endVars, netVars, appVars, pastVars
  <2>2. UNCHANGED <<at[y], out[y]>> /\ out'[x] = NoRecord
    BY <1>0, <1>2 DEF KeyUpdateFails, Goto, TypeOK, OpTypes
  <2>3. Still(y)
    BY <1>2, <2>2 DEF KeyUpdateFails, Still, keyVars, endVars, appVars, pastVars
  <2> QED
    BY <1>2, <2>1, <2>2, <2>3
    DEF KeyUpdateFails, Moves, SenderStep, Leaves, endVars, netVars, appVars,
        pastVars
<1>3. CASE ErrorFails(x)
  <2>1. \E keep \in BOOLEAN : Shutdown(x, keep)
    BY <1>3 DEF ErrorFails
  <2>2. \E what \in {"error", "closed"} : Finish(x, what)
    BY <1>3 DEF ErrorFails
  <2> QED
    BY <1>3, <2>1, <2>2, ShutdownMoves DEF ErrorFails, netVars
<1>4. CASE CloseFails(x)
  BY <1>4, ShutdownMoves DEF CloseFails, netVars
<1> QED
  BY <1>1, <1>2, <1>3, <1>4 DEF Fails

\* An end that took a record it goes on with.
LEMMA TakeMoves ==
    ASSUME TypeOK, NEW x \in Ends, NEW y \in Ends, y = Peer(x), y # x,
           at[x] \in {"reading", "awaiting"}, Incoming(x), Take(x),
           UNCHANGED <<closed[x], reported[x], written[x], writeState[x]>>,
           out'[x] = NoRecord,
           at'[x] \in {"idle", "reading", "awaiting"},
           Counting(x)' => Counting(x),
           IF Upcoming(x).kind \in KeyUpdates
             THEN /\ readState'[x] = [gen |-> secrets[x][y] + 1, seq |-> 0]
                  /\ secrets'[x][y] = secrets[x][y] + 1
             ELSE /\ readState'[x] = [gen |-> readState[x].gen,
                                      seq |-> readState[x].seq + 1]
                  /\ secrets'[x][y] = secrets[x][y],
           Counting(x)' /\ reported[x] # "error" =>
               delivered'[x] = IF Upcoming(x).kind = "application_data"
                               THEN Upcoming(x).number ELSE delivered[x],
           UNCHANGED <<sockOpen, broken>>, Still(y)
    PROVE  Moves(x)
<1>1. wire'[y] = Tail(wire[y]) /\ wire'[x] = wire[x]
  BY TakeEffect
<1>2. out[x] = NoRecord
  BY DEF TypeOK, OpTypes, Sending
<1>3. Waits(x)
  BY <1>1, <1>2 DEF Waits
<1>4. ReadsNext(x)
  BY <1>1 DEF ReadsNext, Listening
<1>5. at'[x] \notin Salvaging
  BY DEF Salvaging
<1> QED
  BY <1>3, <1>4, <1>5 DEF Moves, SenderStep, ReceiverStep

\* An end that goes on to answer the record it took, or to refuse it.
LEMMA AnswerReads ==
    ASSUME TypeOK, NEW x \in Ends, NEW y \in Ends, y = Peer(x), y # x,
           at[x] = "reading", Incoming(x), Take(x),
           UNCHANGED <<closed[x], reported[x], delivered[x]>>,
           Upcoming(x).kind # "application_data",
           IF Upcoming(x).kind \in KeyUpdates
             THEN /\ readState'[x] = [gen |-> secrets[x][y] + 1, seq |-> 0]
                  /\ secrets'[x][y] = secrets[x][y] + 1
             ELSE /\ readState'[x] = [gen |-> readState[x].gen,
                                      seq |-> readState[x].seq + 1]
                  /\ secrets'[x][y] = secrets[x][y]
    PROVE  ReceiverStep(x)
<1>1. wire'[y] = Tail(wire[y])
  BY TakeEffect
<1> QED
  BY <1>1 DEF ReceiverStep, ReadsNext, Listening, Counting

LEMMA RefusalReads ==
    ASSUME TypeOK, NEW x \in Ends, Incoming(x), Take(x),
           at'[x] \in {"send_error", "send_error_closing"}
    PROVE  ReceiverStep(x)
<1>1. wire'[Peer(x)] = Tail(wire[Peer(x)])
  BY TakeEffect
<1> QED
  BY <1>1 DEF ReceiverStep, ReadsNext, Listening

LEMMA ReadsMoves ==
    ASSUME TypeOK, NEW x \in Ends,
           \/ ReadData(x)
           \/ ReadTicket(x)
           \/ ReadKeyUpdate(x)
           \/ ReadKeyUpdateRequest(x)
           \/ ReadCloseNotify(x)
           \/ Refuse(x)
           \/ AwaitData(x)
           \/ AwaitHandshake(x)
    PROVE  Moves(x)
<1> DEFINE y == Peer(x)
<1>0. y \in Ends /\ y # x
  BY PeerType
<1>1. CASE ReadData(x)
  <2>1. /\ at[x] = "reading" /\ Incoming(x) /\ Take(x)
        /\ Upcoming(x).kind = "application_data"
    BY <1>1 DEF ReadData, Arrives
  <2>2. /\ at'[x] = "idle" /\ out'[x] = NoRecord
        /\ UNCHANGED <<reported[x], at[y], out[y], reported[y]>>
    BY <1>0, <1>1, FinishEffect DEF ReadData
  <2>3. /\ readState'[x] = [gen |-> readState[x].gen,
                            seq |-> readState[x].seq + 1]
        /\ readState'[y] = readState[y]
    BY <1>0, <1>1, CountRecordEffect DEF ReadData
  <2>4. /\ delivered'[x] = IF reported[x] = "error" THEN delivered[x]
                           ELSE Upcoming(x).number
        /\ delivered'[y] = delivered[y]
    BY <1>0, <1>1 DEF ReadData, TypeOK, AppTypes
  <2>5. Still(y) /\ Counting(x)
    BY <1>1, <2>1, <2>2, <2>3, <2>4 DEF ReadData, Still, endVars, Counting
  <2> QED
    BY <1>0, <1>1, <2>1, <2>2, <2>3, <2>4, <2>5, TakeMoves
    DEF ReadData, endVars, KeyUpdates
<1>2. CASE ReadTicket(x)
  <2>1. /\ at[x] = "reading" /\ Incoming(x) /\ Take(x)
        /\ Upcoming(x).kind = "new_session_ticket"
    BY <1>2 DEF ReadTicket, Arrives
  <2>2. /\ readState'[x] = [gen |-> readState[x].gen,
                            seq |-> readState[x].seq + 1]
        /\ readState'[y] = readState[y]
    BY <1>0, <1>2, CountRecordEffect DEF ReadTicket
  <2>3. out'[x] = NoRecord
    BY <1>2, <2>1 DEF ReadTicket, opVars, TypeOK, OpTypes, Sending
  <2>4. Still(y) /\ Counting(x)
    BY <1>2, <2>1, <2>2
    DEF ReadTicket, Still, endVars, opVars, appVars, pastVars, Counting
  <2> QED
    BY <1>0, <1>2, <2>1, <2>2, <2>3, <2>4, TakeMoves
    DEF ReadTicket, endVars, opVars, appVars, pastVars, KeyUpdates
<1>3. CASE ReadKeyUpdate(x)
  <2>1. /\ at[x] = "reading" /\ Incoming(x) /\ Take(x)
        /\ Upcoming(x).kind = "update_not_requested"
    BY <1>3 DEF ReadKeyUpdate, Arrives
  <2>2. /\ readState'[x] = [gen |-> secrets[x][y] + 1, seq |-> 0]
        /\ secrets'[x][y] = secrets[x][y] + 1
        /\ UNCHANGED <<readState[y], secrets[y]>>
    BY <1>0, <1>3, SwitchReadKeyEffect DEF ReadKeyUpdate
  <2>3. out'[x] = NoRecord
    BY <1>3, <2>1 DEF ReadKeyUpdate, opVars, TypeOK, OpTypes, Sending
  <2>4. Still(y) /\ Counting(x)
    BY <1>3, <2>1, <2>2
    DEF ReadKeyUpdate, Still, endVars, opVars, appVars, pastVars, Counting
  <2> QED
    BY <1>0, <1>3, <2>1, <2>2, <2>3, <2>4, TakeMoves
    DEF ReadKeyUpdate, endVars, opVars, appVars, pastVars, KeyUpdates
<1>4. CASE ReadKeyUpdateRequest(x)
  <2>1. /\ at[x] = "reading" /\ Incoming(x) /\ Take(x)
        /\ Upcoming(x).kind = "update_requested"
    BY <1>4 DEF ReadKeyUpdateRequest, Arrives
  <2>2. /\ readState'[x] = [gen |-> secrets[x][y] + 1, seq |-> 0]
        /\ secrets'[x][y] = secrets[x][y] + 1
        /\ UNCHANGED <<readState[y], secrets[y]>>
    BY <1>0, <1>4, SwitchReadKeyEffect DEF ReadKeyUpdateRequest
  <2>3. ReceiverStep(x)
    BY <1>0, <1>4, <2>1, <2>2, AnswerReads
    DEF ReadKeyUpdateRequest, endVars, KeyUpdates
  <2>4. wire'[x] = wire[x] /\ at[x] \notin Sending
    BY <2>1, TakeEffect DEF Sending
  <2> QED
    BY <1>0, <1>4, <2>2, <2>3, <2>4, SealMoves
    DEF ReadKeyUpdateRequest, endVars, Kinds, KeyUpdates, Sending, Updating
<1>5. CASE ReadCloseNotify(x)
  <2>1. /\ at[x] = "reading" /\ Incoming(x) /\ Take(x)
        /\ Upcoming(x).kind = "close_notify"
    BY <1>5 DEF ReadCloseNotify, Arrives
  <2>2. /\ readState'[x] = [gen |-> readState[x].gen,
                            seq |-> readState[x].seq + 1]
        /\ readState'[y] = readState[y]
    BY <1>0, <1>5, CountRecordEffect DEF ReadCloseNotify
  <2>3. ReceiverStep(x)
    BY <1>0, <1>5, <2>1, <2>2, AnswerReads
    DEF ReadCloseNotify, endVars, KeyUpdates
  <2>4. wire'[x] = wire[x] /\ at[x] \notin Sending
    BY <2>1, TakeEffect DEF Sending
  <2> QED
    BY <1>0, <1>5, <2>2, <2>3, <2>4, SealMoves
    DEF ReadCloseNotify, endVars, Kinds, KeyUpdates, Sending, Updating
<1>6. CASE Refuse(x) \/ AwaitHandshake(x)
  <2>1. /\ at[x] \in {"reading", "awaiting"} /\ Incoming(x) /\ Take(x)
        /\ CountRecord(x) /\ Seal(x, "fatal")
        /\ \E where \in {"send_error", "send_error_closing"} : Goto(x, where)
        /\ UNCHANGED <<secrets, endVars, broken, delivered, reported>>
    BY <1>6 DEF Refuse, AwaitHandshake, Arrives
  <2>2. PICK where \in {"send_error", "send_error_closing"} : Goto(x, where)
    BY <2>1
  <2>3. at'[x] = where /\ where \in Sending \ Updating
    BY <2>2, GotoEffect DEF Sending, Updating
  <2>4. ReceiverStep(x)
    BY <2>1, <2>3, RefusalReads
  <2>5. /\ readState'[y] = readState[y]
        /\ wire'[x] = wire[x] /\ at[x] \notin Sending
    BY <1>0, <2>1, CountRecordEffect, TakeEffect DEF Sending
  <2> QED
    BY <1>0, <2>1, <2>2, <2>3, <2>4, <2>5, SealMoves
    DEF endVars, Kinds, KeyUpdates
<1>7. CASE AwaitData(x)
  <2>1. /\ at[x] = "awaiting" /\ Incoming(x) /\ Take(x)
        /\ Upcoming(x).kind = "application_data"
    BY <1>7 DEF AwaitData, Arrives
  <2>2. /\ readState'[x] = [gen |-> readState[x].gen,
                            seq |-> readState[x].seq + 1]
        /\ readState'[y] = readState[y]
    BY <1>0, <1>7, CountRecordEffect DEF AwaitData
  <2>3. out'[x] = NoRecord /\ at'[x] = "awaiting"
    BY <1>7, <2>1 DEF AwaitData, opVars, TypeOK, OpTypes, Sending
  <2>4. Still(y) /\ ~Counting(x)'
    BY <1>7, <2>1, <2>2, <2>3
    DEF AwaitData, Still, endVars, opVars, appVars, pastVars, Counting
  <2> QED
    BY <1>0, <1>7, <2>1, <2>2, <2>3, <2>4, TakeMoves
    DEF AwaitData, endVars, opVars, appVars, pastVars, KeyUpdates
<1> QED
  BY <1>1, <1>2, <1>3, <1>4, <1>5, <1>6, <1>7

LEMMA EndsMoves ==
    ASSUME StreamInv, NEW x \in Ends,
           \/ GetFatal(x)
           \/ ReadEof(x)
           \/ ReadReset(x)
           \/ AwaitCloseNotify(x)
           \/ AwaitEnd(x)
           \/ SalvageOther(x)
           \/ SalvageAlert(x)
           \/ SalvageRefusedReading(x)
           \/ SalvageRefusedUpdating(x)
           \/ SalvageNothing(x)
    PROVE  Moves(x)
<1> DEFINE y == Peer(x)
<1>0. TypeOK /\ y \in Ends /\ y # x
  BY PeerType DEF StreamInv, SafetyInv
<1>00. Sender(x)
  BY <1>0, PeerType DEF StreamInv, Direction
<1>1. CASE GetFatal(x)
  BY <1>0, <1>1, ShutdownMoves DEF GetFatal, Arrives
<1>2. CASE ReadEof(x)
  <2>1. \E what \in {"eof", "error"} : Finish(x, what)
    BY <1>2 DEF ReadEof
  <2> QED
    BY <1>0, <1>2, <2>1, ShutdownMoves, SettingsAssumption DEF ReadEof, netVars
<1>3. CASE ReadReset(x)
  BY <1>0, <1>3, ShutdownMoves DEF ReadReset, netVars
<1>4. CASE AwaitCloseNotify(x)
  BY <1>0, <1>4, ShutdownMoves DEF AwaitCloseNotify, Arrives
<1>5. CASE AwaitEnd(x)
  BY <1>0, <1>5, ShutdownMoves DEF AwaitEnd, netVars
<1>6. CASE SalvageOther(x)
  <2>1. Incoming(x) /\ Take(x) /\ EndSession(x, FALSE) /\ SwitchWriteKey(x)
    BY <1>6 DEF SalvageOther, Arrives
  <2>2. PICK what \in {"eof", "nothing"} : Finish(x, what)
    BY <1>6 DEF SalvageOther
  <2>3. /\ wire'[y] = Tail(wire[y]) /\ wire'[x] = wire[x]
        /\ closed'[x] /\ out'[x] = NoRecord /\ at'[x] = "idle"
    BY <1>0, <2>1, <2>2, TakeEffect, EndSessionEffect, FinishEffect
  <2>4. sockOpen'[x] => sockOpen[x]
    BY <1>0, <2>1 DEF EndSession, TypeOK, EndTypes
  <2>5. readState'[y] = readState[y]
    BY <1>0, <1>6 DEF SalvageOther, TypeOK, KeyTypes
  <2>6. Still(y)
    <3>1. UNCHANGED <<closed[y], sockOpen[y]>>
      BY <1>0, <2>1, EndSessionEffect
    <3>2. UNCHANGED <<at[y], out[y], reported[y]>>
      BY <1>0, <2>2, FinishEffect
    <3>3. UNCHANGED <<writeState[y], secrets[y]>>
      BY <1>0, <2>1, SwitchWriteKeyEffect
    <3> QED
      BY <1>6, <2>5, <3>1, <3>2, <3>3 DEF Still, SalvageOther, appVars
  <2>7. ReceiverStep(x)
    BY <2>1, <2>3 DEF ReceiverStep, ReadsNext, Listening
  <2>8. SenderStep(x)
    BY <1>6, <2>3 DEF SenderStep, Leaves, SalvageOther, appVars
  <2> QED
    BY <1>6, <2>3, <2>4, <2>6, <2>7, <2>8 DEF Moves, SalvageOther, Salvaging
<1>7. CASE SalvageAlert(x)
  <2>1. \E what \in {"eof", "error"} : Finish(x, what)
    BY <1>7 DEF SalvageAlert
  <2> QED
    BY <1>0, <1>7, <2>1, ShutdownMoves DEF SalvageAlert, Arrives
<1>8. CASE SalvageRefusedReading(x)
  BY <1>0, <1>8, ShutdownMoves DEF SalvageRefusedReading
<1>9. CASE SalvageRefusedUpdating(x)
  <2>1. Incoming(x) /\ Take(x) /\ CountRecord(x) /\ Finish(x, "error")
    BY <1>9 DEF SalvageRefusedUpdating
  <2>2. Unsendable(x)
    BY <1>00, <1>9 DEF Sender, SalvageRefusedUpdating, Salvaging
  <2>3. /\ wire'[y] = Tail(wire[y]) /\ wire'[x] = wire[x]
        /\ out'[x] = NoRecord /\ at'[x] = "idle"
        /\ reported'[x] = IF reported[x] = "nothing" THEN "error"
                          ELSE reported[x]
    BY <1>0, <2>1, TakeEffect, FinishEffect
  <2>4. writeState'[y] = writeState[y]
    BY <1>0, <1>9 DEF SalvageRefusedUpdating, TypeOK, KeyTypes
  <2>5. Still(y)
    BY <1>0, <1>9, <2>1, <2>4, FinishEffect, CountRecordEffect
    DEF Still, SalvageRefusedUpdating, endVars, appVars
  <2>6. ~Listening(x)'
    BY <1>00, <1>9, <2>3 DEF Listening, Sender, SalvageRefusedUpdating, endVars
  <2>7. ReceiverStep(x)
    BY <2>1, <2>3, <2>6 DEF ReceiverStep, ReadsNext
  <2>8. SenderStep(x)
    BY <1>9, <2>2, <2>3 DEF SenderStep, Leaves, SalvageRefusedUpdating, appVars
  <2> QED
    BY <1>9, <2>3, <2>5, <2>7, <2>8
    DEF Moves, SalvageRefusedUpdating, endVars, Salvaging
<1>10. CASE SalvageNothing(x)
  <2>1. /\ wire' = wire /\ out'[x] = NoRecord /\ at'[x] = "idle"
        /\ reported'[x] = IF reported[x] = "nothing" THEN "error"
                          ELSE reported[x]
    BY <1>0, <1>10, FinishEffect DEF SalvageNothing, netVars
  <2>2. Still(y)
    BY <1>0, <1>10, FinishEffect
    DEF Still, SalvageNothing, keyVars, endVars, appVars
  <2>3. ~Listening(x)'
    BY <1>00, <1>10, <2>1 DEF Listening, Sender, SalvageNothing, endVars
  <2>4. Leaves(x)
    BY <1>00, <1>10, <2>1 DEF Leaves, Sender, SalvageNothing, appVars, Salvaging
  <2> QED
    BY <1>10, <2>1, <2>2, <2>3, <2>4
    DEF Moves, SenderStep, ReceiverStep, ReadsNone, SalvageNothing, endVars,
        netVars, Salvaging
<1> QED
  BY <1>1, <1>2, <1>3, <1>4, <1>5, <1>6, <1>7, <1>8, <1>9, <1>10

LEMMA EveryMove ==
    ASSUME StreamInv, NEW x \in Ends, Calls(x) \/ Progress(x) PROVE Moves(x)
<1>1. Receives(x) => Moves(x)
  BY ReadsMoves, EndsMoves DEF StreamInv, SafetyInv, Receives
<1> QED
  BY <1>1, CallsMoves, SendsMoves, FailsMoves
  DEF Progress, StreamInv, SafetyInv

-----------------------------------------------------------------------------
(***************************************************************************)
(* The invariant.                                                          *)
(***************************************************************************)
LEMMA StepStream == StreamInv /\ [Next]_vars => StreamInv'
<1> SUFFICES ASSUME StreamInv, [Next]_vars PROVE StreamInv'
  OBVIOUS
<1>1. SafetyInv'
  BY StepSafe DEF StreamInv
<1>2. ASSUME NEW x \in Ends, Calls(x) \/ Progress(x), NEW e \in Ends
      PROVE  Direction(e)'
  <2>1. Moves(x) /\ TypeOK' /\ Peer(x) \in Ends /\ Peer(Peer(x)) = x
    BY <1>1, <1>2, EveryMove, PeerType DEF SafetyInv
  <2>2. e = x \/ e = Peer(x)
    BY DEF Ends, Peer
  <2> QED
    BY <2>1, <2>2, SenderSide, ReceiverSide
<1>3. ASSUME UNCHANGED vars, NEW e \in Ends PROVE Direction(e)'
  <2>1. Direction(e)
    BY DEF StreamInv
  <2> QED
    BY <1>3, <2>1
    DEF vars, keyVars, endVars, opVars, netVars, appVars, pastVars, Direction,
        InOrder, Linked, Sender, Listening, Begins, Counting, LinkedNone,
        LinkedSealed, StateAfter, NumberAfter, NumberKnown, Unsendable
<1>4. ASSUME NEW e \in Ends PROVE Direction(e)'
  BY <1>2, <1>3, BreakKeeps, DamageKeeps DEF Next
<1> QED
  BY <1>1, <1>4 DEF StreamInv

LEMMA AlwaysStream == Spec => []StreamInv
BY InitStream, StepStream, PTL DEF Spec

-----------------------------------------------------------------------------
(***************************************************************************)
(* The theorems.                                                           *)
(***************************************************************************)

\* However writes, tickets and the KeyUpdates of both ends cross, the record
\* an end is about to read was sealed with the key and the number that the
\* end expects next (recvRecord, _handle_keyupdate_request).
THEOREM RecordLayerInStep == Spec => []ReceiverInStep
<1>1. StreamInv => ReceiverInStep
  <2> SUFFICES ASSUME StreamInv, NEW e \in Ends,
                      at[e] \in Receiving, reported[e] # "error",
                      Incoming(e), Upcoming(e).intact
               PROVE  Opens(e)
    BY DEF ReceiverInStep
  <2>1. Listening(e)
    BY DEF StreamInv, SafetyInv, SafeEnd, Listening, Receiving, Salvaging
  <2>2. Begins(e, wire[Peer(e)])
    BY <2>1 DEF StreamInv, Direction, InOrder
  <2>3. wire[Peer(e)] \in Seq(Records)
    BY PeerType, StreamTypes DEF StreamInv, SafetyInv
  <2> QED
    BY <2>2, <2>3 DEF Begins, Matches, Opens, Incoming, Upcoming
<1> QED
  BY <1>1, AlwaysStream, PTL

\* A record of application data that is delivered is the one after the last,
\* and was written.
LEMMA NextDelivered ==
    ASSUME StreamInv, NEW e \in Ends, ReadData(e), reported[e] # "error"
    PROVE  /\ ~closed[e]
           /\ Upcoming(e).number = delivered[e] + 1
           /\ delivered[e] < written[Peer(e)]
<1> DEFINE p == Peer(e)
           w == wire[p]
<1>1. /\ TypeOK /\ SafeEnd(e) /\ Direction(e)
      /\ p \in Ends /\ w \in Seq(Records)
      /\ delivered[e] \in Nat /\ written[p] \in Nat
  BY PeerType, StreamTypes DEF StreamInv, SafetyInv
<1>2. /\ at[e] = "reading" /\ w # <<>>
      /\ Upcoming(e).kind = "application_data"
  BY DEF ReadData, Arrives, Incoming
<1>3. ~closed[e] /\ Listening(e) /\ Counting(e)
  BY <1>1, <1>2 DEF SafeEnd, Listening, Counting
<1>4. Upcoming(e) = w[1] /\ 1 \in 1..Len(w)
  BY <1>1, <1>2 DEF Upcoming
<1>5. w[1].number = delivered[e] + 1
  BY <1>1, <1>2, <1>3, <1>4 DEF Direction, InOrder, Begins, Numbered
<1>6. w[1].number <= written[p]
  BY <1>1, <1>4 DEF Direction, Sender
<1> QED
  BY <1>1, <1>3, <1>4, <1>5, <1>6

\* What a step is to the two streams.
LEMMA StreamStep == StreamInv /\ [Next]_vars => [Stream!Next]_(Stream!svars)
<1> SUFFICES ASSUME StreamInv, [Next]_vars
             PROVE  Stream!Next \/ UNCHANGED <<written, delivered, closed>>
  BY DEF Stream!svars
<1>0. TypeOK
  BY DEF StreamInv, SafetyInv
<1> DEFINE Quiet == UNCHANGED <<written, delivered, closed>>
           Writes(e) == /\ ~closed[e]
                        /\ written' = [written EXCEPT ![e] = @ + 1]
                        /\ UNCHANGED <<delivered, closed>>
           Delivers(e) == /\ ~closed[e]
                          /\ delivered[e] < written[Peer(e)]
                          /\ delivered' = [delivered EXCEPT ![e] = @ + 1]
                          /\ UNCHANGED <<written, closed>>
           Closes(e) == /\ closed' = [closed EXCEPT ![e] = TRUE]
                        /\ UNCHANGED <<written, delivered>>
<1>1. ASSUME NEW e \in Ends, Writes(e) \/ Delivers(e) \/ Closes(e)
      PROVE  Stream!Next
  BY <1>1 DEF Stream!Next, Stream!Write, Stream!Deliver, Stream!End,
              Stream!Ends, Stream!Peer, Ends, Peer
<1>2. ASSUME NEW e \in Ends, NEW kind \in Kinds \ {"application_data"},
             Seal(e, kind)
      PROVE  written' = written
  BY <1>0, <1>2 DEF Seal, TypeOK, AppTypes
<1>3. ASSUME NEW e \in Ends, Calls(e) PROVE Quiet \/ Writes(e) \/ Closes(e)
  <2>1. CASE Write(e)
    BY <1>0, <2>1 DEF Write, Seal, endVars, TypeOK, AppTypes
  <2>2. CASE WriteClosed(e)
    BY <2>2 DEF WriteClosed, Shutdown, EndSession, appVars
  <2>3. CASE Read(e) \/ ReadClosed(e)
    BY <2>3 DEF Read, ReadClosed, endVars, appVars
  <2>4. CASE SendKeyUpdate(e) \/ Close(e)
    BY <1>2, <2>4 DEF SendKeyUpdate, Close, endVars, Kinds, KeyUpdates
  <2> QED
    BY <1>3, <2>1, <2>2, <2>3, <2>4 DEF Calls
<1>4. ASSUME NEW e \in Ends, Sends(e) PROVE Quiet \/ Writes(e) \/ Closes(e)
  <2>1. CASE FragmentSent(e)
    <3>1. ~closed[e]
      BY <2>1 DEF FragmentSent, StreamInv, SafetyInv, SafeEnd
    <3> QED
      BY <1>0, <2>1, <3>1 DEF FragmentSent, Seal, endVars, TypeOK, AppTypes
  <2>2. CASE WriteDone(e) \/ KeyUpdateSent(e) \/ CloseSentAwaiting(e)
    BY <2>2
    DEF WriteDone, KeyUpdateSent, CloseSentAwaiting, endVars, appVars
  <2>3. CASE AnswerSent(e) \/ ErrorSent(e) \/ CloseSent(e)
    BY <2>3
    DEF AnswerSent, ErrorSent, CloseSent, Shutdown, EndSession, appVars
  <2> QED
    BY <1>4, <2>1, <2>2, <2>3 DEF Sends
<1>5. ASSUME NEW e \in Ends, Fails(e) PROVE Quiet \/ Closes(e)
  BY <1>5 DEF Fails, WriteFails, KeyUpdateFails, ErrorFails, CloseFails,
              Shutdown, EndSession, endVars, appVars
<1>6. ASSUME NEW e \in Ends, Receives(e) PROVE Quiet \/ Delivers(e) \/ Closes(e)
  <2>1. CASE ReadData(e)
    <3>1. UNCHANGED <<written, closed>>
      BY <2>1 DEF ReadData, endVars
    <3>2. CASE reported[e] = "error"
      BY <1>0, <2>1, <3>1, <3>2 DEF ReadData, TypeOK, AppTypes
    <3>3. CASE reported[e] # "error"
      BY <2>1, <3>1, <3>3, NextDelivered DEF ReadData
    <3> QED
      BY <3>2, <3>3
  <2>2. CASE ReadTicket(e) \/ ReadKeyUpdate(e) \/ AwaitData(e)
             \/ SalvageRefusedUpdating(e) \/ SalvageNothing(e)
    BY <2>2 DEF ReadTicket, ReadKeyUpdate, AwaitData, SalvageRefusedUpdating,
                SalvageNothing, endVars, appVars
  <2>3. CASE ReadKeyUpdateRequest(e) \/ ReadCloseNotify(e) \/ Refuse(e)
             \/ AwaitHandshake(e)
    BY <1>2, <2>3 DEF ReadKeyUpdateRequest, ReadCloseNotify, Refuse,
                      AwaitHandshake, endVars, Kinds, KeyUpdates
  <2>4. CASE GetFatal(e) \/ ReadEof(e) \/ ReadReset(e) \/ AwaitCloseNotify(e)
             \/ AwaitEnd(e) \/ SalvageOther(e) \/ SalvageAlert(e)
             \/ SalvageRefusedReading(e)
    BY <2>4 DEF GetFatal, ReadEof, ReadReset, AwaitCloseNotify, AwaitEnd,
                SalvageOther, SalvageAlert, SalvageRefusedReading, Shutdown,
                EndSession, appVars
  <2> QED
    BY <1>6, <2>1, <2>2, <2>3, <2>4 DEF Receives
<1>7. CASE Break \/ Damage \/ UNCHANGED vars
  BY <1>7 DEF Break, Damage, vars, endVars, appVars
<1> QED
  BY <1>1, <1>3, <1>4, <1>5, <1>6, <1>7 DEF Next, Progress

\* read() returns what the peer's write() was given: in order, nothing twice,
\* nothing left out, until a call raises or the connection is closed.
THEOREM RecordLayerStream == Spec => ImplementsStream
<1>1. Init => Stream!Init
  BY DEF Init, Stream!Init, Stream!Ends, Ends
<1> QED
  BY <1>1, StreamStep, AlwaysStream, PTL DEF Spec, ImplementsStream, Stream!Spec
=============================================================================
