---------------------------- MODULE CdpConn_proof ---------------------------
(***************************************************************************)
(* Proofs about CdpConn, for any set of calls.                             *)
(***************************************************************************)
EXTENDS CdpConn, TLAPS

(* An id is taken by one call, and 0 by none.                              *)
IdsUnique ==
  /\ \A c \in Calls : /\ id[c] <= nextID
                      /\ call[c] = "idle" => id[c] = 0
                      /\ call[c] \in {"registered", "headed"} => id[c] # 0
  /\ \A c, d \in Calls : id[c] = id[d] /\ id[c] # 0 => c = d

HandingTo(c) == reader.at = "handing" /\ reader.to = c

(* A registered call has been sent nothing yet.                            *)
PendingInv ==
  \A p \in pending :
    /\ p.id = id[p.to] /\ p.id # 0
    /\ call[p.to] \in {"registered", "headed", "waiting", "forgetting"}
    /\ chan[p.to] = None
    /\ ~HandingTo(p.to)

WireInv == \A m \in onWire : m.id = id[m.from] /\ m.id # 0

ReaderInv ==
  reader.at = "handing" =>
    /\ reader.to \in Calls
    /\ reader.reply = reader.to
    /\ chan[reader.to] = None
    /\ call[reader.to] \notin {"idle", "replied"}

ChanInv ==
  \A c \in Calls :
    /\ chan[c] \in {None, c}
    /\ call[c] = "idle" => chan[c] = None

IInv ==
  /\ TypeOK
  /\ IdsUnique
  /\ PendingInv
  /\ WireInv
  /\ ReaderInv
  /\ ChanInv
  /\ OwnReply

USE DEF Reading, Control, Answering, Failed, Stopped, Handing, Without,
  CallStates, writes

LEMMA InitInv == Init => IInv
<1> SUFFICES ASSUME Init PROVE IInv
  OBVIOUS
<1>1. /\ nextID \in Nat
      /\ pending \in SUBSET [id : Nat, to : Calls]
      /\ onWire \in SUBSET [id : Nat, from : Calls]
      /\ chan \in [Calls -> Calls \cup {None}]
      /\ call \in [Calls -> CallStates]
      /\ id \in [Calls -> Nat]
      /\ got \in [Calls -> Calls \cup {None}]
  BY DEF Init
<1>2. readErr \in BOOLEAN /\ done \in BOOLEAN /\ mangled \in BOOLEAN
  BY Zenon DEF Init
<1>3. TypeOK
  BY <1>1, <1>2 DEF Init, TypeOK
<1>4. IdsUnique /\ PendingInv /\ WireInv /\ ReaderInv /\ ChanInv /\ OwnReply
  BY DEF Init, IdsUnique, PendingInv, WireInv, ReaderInv, ChanInv, OwnReply
<1> QED BY <1>3, <1>4 DEF IInv

LEMMA NextInv == IInv /\ [Next]_vars => IInv'
<1> SUFFICES ASSUME IInv, [Next]_vars PROVE IInv'
  OBVIOUS
<1> USE NoneAssumption DEF IInv
<1>1. ASSUME NEW c \in Calls, Register(c) PROVE IInv'
  <2> USE <1>1 DEF Register
  <2>1. TypeOK'
    BY DEF TypeOK
  <2>2. IdsUnique'
    BY DEF TypeOK, IdsUnique
  <2>3. PendingInv'
    BY DEF TypeOK, IdsUnique, PendingInv, HandingTo, ReaderInv, ChanInv
  <2>4. WireInv'
    BY DEF TypeOK, IdsUnique, WireInv
  <2>5. ReaderInv' /\ ChanInv' /\ OwnReply'
    BY DEF TypeOK, ReaderInv, ChanInv, OwnReply
  <2> QED BY <2>1, <2>2, <2>3, <2>4, <2>5
<1>2. ASSUME NEW c \in Calls, LockWrite(c) PROVE IInv'
  BY <1>2 DEF LockWrite, TypeOK, IdsUnique, PendingInv, HandingTo, WireInv,
     ReaderInv, ChanInv, OwnReply
<1>11. ASSUME NEW c \in Calls, Write(c) PROVE IInv'
  <2>1. /\ \E s \in {"headed", "waiting", "forgetting"} :
             call' = [call EXCEPT ![c] = s]
        /\ call'[c] = "headed" => call[c] = "registered"
        /\ wmu' = None
        /\ \/ UNCHANGED onWire
           \/ /\ onWire' = onWire \cup {[id |-> id[c], from |-> c]}
              /\ call[c] = "headed"
        /\ UNCHANGED <<nextID, pending, readErr, done, conn, reader, chan, id,
                       ctxDone, got, closer>>
    BY <1>11 DEF Write, WriteHeader, WritePayload, WriteFails, TypeOK
  <2>2. mangled' \in BOOLEAN
    <3>1. mangled \in BOOLEAN
      BY DEF TypeOK
    <3> QED BY <1>11, <3>1, Zenon DEF Write, WriteHeader, WritePayload, WriteFails
  <2>3. id[c] \in Nat /\ (call[c] = "headed" => id[c] # 0)
    BY DEF TypeOK, IdsUnique
  <2>4. WireInv'
    BY <2>1, <2>3 DEF WireInv
  <2>5. onWire' \in SUBSET [id : Nat, from : Calls]
    BY <2>1, <2>3 DEF TypeOK
  <2>6. TypeOK'
    BY <2>1, <2>2, <2>5 DEF TypeOK
  <2>7. IdsUnique' /\ PendingInv' /\ ReaderInv' /\ ChanInv' /\ OwnReply'
    BY <2>1 DEF TypeOK, IdsUnique, PendingInv, HandingTo, ReaderInv, ChanInv, OwnReply
  <2> QED BY <2>4, <2>6, <2>7
<1>3. ASSUME NEW c \in Calls, ReceiveReply(c) PROVE IInv'
  <2> USE <1>3 DEF ReceiveReply
  <2>1. TypeOK'
    BY DEF TypeOK
  <2>2. IdsUnique' /\ WireInv' /\ ChanInv' /\ OwnReply'
    BY DEF TypeOK, IdsUnique, WireInv, ChanInv, OwnReply
  <2>3. PendingInv' /\ ReaderInv'
    BY DEF TypeOK, PendingInv, HandingTo, ReaderInv
  <2> QED BY <2>1, <2>2, <2>3
<1>4. ASSUME NEW c \in Calls, GiveUp(c) PROVE IInv'
  BY <1>4 DEF GiveUp, TypeOK, IdsUnique, PendingInv, HandingTo, WireInv,
     ReaderInv, ChanInv, OwnReply
<1>5. ASSUME NEW c \in Calls, Forget(c) PROVE IInv'
  <2> USE <1>5 DEF Forget
  <2>1. TypeOK'
    BY DEF TypeOK
  <2>2. PendingInv'
    BY DEF TypeOK, PendingInv, HandingTo
  <2>3. IdsUnique' /\ WireInv' /\ ReaderInv' /\ ChanInv' /\ OwnReply'
    BY DEF TypeOK, IdsUnique, WireInv, ReaderInv, ChanInv, OwnReply
  <2> QED BY <2>1, <2>2, <2>3
<1>6. ASSUME NEW c \in Calls, ContextDone(c) PROVE IInv'
  BY <1>6 DEF ContextDone, TypeOK, IdsUnique, PendingInv, HandingTo, WireInv,
     ReaderInv, ChanInv, OwnReply
<1>7. CASE ReadReply
  <2>1. PICK m \in onWire :
          /\ onWire' \subseteq onWire
          /\ pending' = Without(m.id)
          /\ \/ \E p \in pending : p.id = m.id /\ reader' = Handing(p.to, m.from)
             \/ UNCHANGED reader
    BY <1>7 DEF ReadReply
  <2>2. UNCHANGED <<nextID, readErr, done, conn, chan, call, id, ctxDone, got,
                    closer, wmu, mangled>>
        /\ reader = Reading
    BY <1>7 DEF ReadReply
  <2>3. IdsUnique' /\ WireInv' /\ ChanInv' /\ OwnReply'
    BY <2>1, <2>2 DEF IdsUnique, WireInv, ChanInv, OwnReply
  <2>4. CASE UNCHANGED reader
    BY <2>1, <2>2, <2>3, <2>4 DEF TypeOK, PendingInv, HandingTo, ReaderInv
  <2>5. ASSUME NEW p \in pending, p.id = m.id, reader' = Handing(p.to, m.from)
        PROVE  IInv'
    <3>1. p.to \in Calls /\ m.from \in Calls /\ p.to = m.from
      BY <2>5 DEF TypeOK, PendingInv, WireInv, IdsUnique
    <3>2. TypeOK'
      BY <2>1, <2>2, <2>5, <3>1 DEF TypeOK
    <3>3. ReaderInv'
      BY <2>2, <2>5, <3>1 DEF ReaderInv, PendingInv
    <3>4. PendingInv'
      BY <2>1, <2>2, <2>5, <3>1 DEF TypeOK, PendingInv, HandingTo, IdsUnique
    <3> QED BY <2>3, <3>2, <3>3, <3>4
  <2> QED BY <2>1, <2>4, <2>5
<1>8. CASE HandReply
  <2> USE <1>8 DEF HandReply
  <2>1. TypeOK'
    BY DEF TypeOK, ReaderInv
  <2>2. IdsUnique' /\ WireInv' /\ OwnReply' /\ ReaderInv'
    BY DEF TypeOK, IdsUnique, WireInv, OwnReply, ReaderInv
  <2>3. PendingInv' /\ ChanInv'
    BY DEF TypeOK, PendingInv, HandingTo, ChanInv, ReaderInv
  <2> QED BY <2>1, <2>2, <2>3
<1>9. CASE ReadFails \/ ReaderReturns \/ ReadControl \/ LockAnswer \/ WriteAnswer
  <2>1. reader' \in {Reading, Control, Answering, Failed, Stopped}
        /\ UNCHANGED <<nextID, pending, conn, onWire, chan, call, id, ctxDone,
                       got, closer, wmu>>
    BY <1>9 DEF ReadFails, ReaderReturns, ReadControl, LockAnswer, WriteAnswer
  <2>2. readErr' \in BOOLEAN /\ done' \in BOOLEAN /\ mangled' \in BOOLEAN
    <3>1. readErr \in BOOLEAN /\ done \in BOOLEAN /\ mangled \in BOOLEAN
      BY DEF TypeOK
    <3> QED BY <1>9, <3>1, Zenon DEF ReadFails, ReaderReturns, ReadControl,
               LockAnswer, WriteAnswer
  <2>3. TypeOK'
    BY <2>1, <2>2 DEF TypeOK
  <2>4. IdsUnique' /\ WireInv' /\ OwnReply' /\ ReaderInv' /\ ChanInv' /\ PendingInv'
    BY <2>1 DEF IdsUnique, WireInv, OwnReply, ReaderInv, ChanInv, PendingInv, HandingTo
  <2> QED BY <2>3, <2>4
<1>10. CASE PeerGone \/ Close \/ CloseReturns \/ Quiet \/ UNCHANGED vars
  <2>1. conn' \in {"open", "broken", "closed"} /\ closer' \in {"none", "waiting", "returned"}
        /\ UNCHANGED <<nextID, pending, readErr, done, onWire, reader, chan, call,
                       id, ctxDone, got, wmu, mangled>>
    BY <1>10 DEF PeerGone, Close, CloseReturns, Quiet, vars, writes, TypeOK
  <2>2. TypeOK'
    BY <2>1 DEF TypeOK
  <2>3. IdsUnique' /\ WireInv' /\ OwnReply' /\ ReaderInv' /\ ChanInv' /\ PendingInv'
    BY <2>1 DEF IdsUnique, WireInv, OwnReply, ReaderInv, ChanInv, PendingInv, HandingTo
  <2> QED BY <2>2, <2>3
<1> QED BY <1>1, <1>2, <1>3, <1>4, <1>5, <1>6, <1>7, <1>8, <1>9, <1>10, <1>11
        DEF Next, Caller, Reader

LEMMA InvAlways == Spec => []IInv
BY InitInv, NextInv, PTL DEF Spec

(* The connection's state is well formed.                                  *)
THEOREM TypeCorrect == Spec => []TypeOK
<1>1. IInv => TypeOK
  BY DEF IInv
<1> QED BY InvAlways, <1>1, PTL

(* A call is only ever answered with the reply to its own command.         *)
THEOREM CallsGetOwnReply == Spec => []OwnReply
<1>1. IInv => OwnReply
  BY DEF IInv
<1> QED BY InvAlways, <1>1, PTL

(* A call that ended, by whatever arm, left nothing in pending.            *)
THEOREM PendingHasNoLeak == Spec => []NothingLeftPending
<1>1. IInv => NothingLeftPending
  BY DEF IInv, PendingInv, NothingLeftPending, Ended
<1> QED BY InvAlways, <1>1, PTL

(* The reader never blocks on a call's channel, so one slow or departed    *)
(* caller cannot stop the replies of the others.                           *)
THEOREM ReaderIsNeverBlocked == Spec => []ReaderNeverBlocks
<1>1. IInv => ReaderNeverBlocks
  BY DEF IInv, ReaderInv, ReaderNeverBlocks
<1> QED BY InvAlways, <1>1, PTL
=============================================================================
