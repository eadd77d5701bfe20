------------------------------- MODULE CdpConn ------------------------------
(***************************************************************************)
(* The DevTools connection of common/cdpattach: many goroutines issue      *)
(* commands with Browser.Call over one WebSocket, one reader goroutine     *)
(* routes the replies, and Browser.Close ends it.                          *)
(*                                                                         *)
(* One element of Calls is one invocation of Call, with the buffered       *)
(* channel it makes.  Chrome is external: it answers commands in any       *)
(* order, possibly more than once, sends control frames the reader         *)
(* answers, may stop reading the socket, which blocks a write, and may go  *)
(* away at any time.  What a reply carries is abstracted to the call whose *)
(* command it answers.                                                     *)
(*                                                                         *)
(* lockedRW takes wmu around each Write of the socket.  The WebSocket      *)
(* library is external too: a command's frame is a write of its header and *)
(* a write of its payload (ws.WriteFrame of gobwas/ws v1.4.0), a control   *)
(* frame's answer is one write.                                            *)
(***************************************************************************)
EXTENDS Integers

CONSTANTS
  Calls,   \* the invocations of Call
  None     \* no call: an empty channel, an unused id

ASSUME NoneAssumption == None \notin Calls

VARIABLES
  nextID,    \* Browser.nextID, under mu
  pending,   \* Browser.pending, under mu: the id and call of each entry
  readErr,   \* Browser.readErr, under mu
  done,      \* Browser.done is closed
  conn,      \* the socket: "open", "broken" by the peer, "closed" by us
  onWire,    \* commands written, and replies to them still to be read
  reader,    \* the reader goroutine
  chan,      \* the reply channel each call made; it holds one reply
  call,      \* where each call is
  id,        \* the id each call took
  ctxDone,   \* the calls whose context is done
  got,       \* the reply a call returned
  closer,    \* a goroutine in Close
  wmu,       \* the call that holds Browser.wmu; see also Answering
  mangled    \* a frame was written into the middle of another

vars == <<nextID, pending, readErr, done, conn, onWire, reader, chan, call,
          id, ctxDone, got, closer, wmu, mangled>>
writes == <<wmu, mangled>>

(* The reader is reading, hands a reply to the channel of call "to", has a *)
(* control frame to answer, holds wmu to answer it, has recorded its       *)
(* error, or has returned.                                                 *)
Reading == [at |-> "reading", to |-> None, reply |-> None]
Control == [at |-> "control", to |-> None, reply |-> None]
Answering == [at |-> "answering", to |-> None, reply |-> None]
Failed  == [at |-> "failed", to |-> None, reply |-> None]
Stopped == [at |-> "stopped", to |-> None, reply |-> None]
Handing(c, r) == [at |-> "handing", to |-> c, reply |-> r]

(* A headed call has written the header of its frame and not the payload.  *)
CallStates == {"idle", "registered", "headed", "waiting", "forgetting",
               "replied", "failed"}

TypeOK ==
  /\ nextID \in Nat
  /\ pending \in SUBSET [id : Nat, to : Calls]
  /\ readErr \in BOOLEAN
  /\ done \in BOOLEAN
  /\ conn \in {"open", "broken", "closed"}
  /\ onWire \in SUBSET [id : Nat, from : Calls]
  /\ reader \in {Reading, Control, Answering, Failed, Stopped}
                  \cup {Handing(c, r) : c \in Calls, r \in Calls}
  /\ chan \in [Calls -> Calls \cup {None}]
  /\ call \in [Calls -> CallStates]
  /\ id \in [Calls -> Nat]
  /\ ctxDone \in SUBSET Calls
  /\ got \in [Calls -> Calls \cup {None}]
  /\ closer \in {"none", "waiting", "returned"}
  /\ wmu \in Calls \cup {None}
  /\ mangled \in BOOLEAN

Init ==
  /\ nextID = 0
  /\ pending = {}
  /\ readErr = FALSE
  /\ done = FALSE
  /\ conn = "open"
  /\ onWire = {}
  /\ reader = Reading
  /\ chan = [c \in Calls |-> None]
  /\ call = [c \in Calls |-> "idle"]
  /\ id = [c \in Calls |-> 0]
  /\ ctxDone = {}
  /\ got = [c \in Calls |-> None]
  /\ closer = "none"
  /\ wmu = None
  /\ mangled = FALSE
-----------------------------------------------------------------------------
(* Faults: what the operations below would be with one plausible mistake   *)
(* each.  They are not part of Next; put in the place of the operation     *)
(* they vary, each breaks one property.                                    *)

(* The id a call takes is read from nextID but never stored back.          *)
RegisterWithoutCounting(c) ==
  /\ call[c] = "idle"
  /\ ~readErr
  /\ id' = [id EXCEPT ![c] = nextID + 1]
  /\ pending' = {p \in pending : p.id # nextID + 1}
                  \cup {[id |-> nextID + 1, to |-> c]}
  /\ call' = [call EXCEPT ![c] = "registered"]
  /\ UNCHANGED <<nextID, readErr, done, conn, onWire, reader, chan, ctxDone,
                 got, closer, writes>>

(* An abandoned call returns without forget.                               *)
GiveUpRegistered(c) ==
  /\ call[c] = "waiting"
  /\ c \in ctxDone \/ done
  /\ call' = [call EXCEPT ![c] = "failed"]
  /\ UNCHANGED <<nextID, pending, readErr, done, conn, onWire, reader, chan,
                 id, ctxDone, got, closer, writes>>

(* deliver sends without asking whether the id was still registered: on a  *)
(* nil channel when it was not.                                            *)
ReadReplyUnchecked ==
  /\ reader = Reading
  /\ \E m \in onWire :
       /\ onWire' = onWire \ {m}
       /\ pending' = {p \in pending : p.id # m.id}
       /\ \/ \E p \in pending : /\ p.id = m.id
                               /\ reader' = Handing(p.to, m.from)
          \/ /\ \A p \in pending : p.id # m.id
             /\ reader' = Handing(None, m.from)
  /\ UNCHANGED <<nextID, readErr, done, conn, chan, call, id, ctxDone, got,
                 closer, writes>>

(* deliver leaves the registration to the caller.                          *)
ReadReplyStillPending ==
  /\ reader = Reading
  /\ \E m \in onWire :
       /\ onWire' \in {onWire, onWire \ {m}}
       /\ \/ \E p \in pending : /\ p.id = m.id
                               /\ reader' = Handing(p.to, m.from)
          \/ /\ \A p \in pending : p.id # m.id
             /\ UNCHANGED reader
  /\ UNCHANGED <<nextID, pending, readErr, done, conn, chan, call, id,
                 ctxDone, got, closer, writes>>

(* The reader returns without waking the waiting calls.                    *)
ReaderReturnsSilently ==
  /\ reader = Failed
  /\ reader' = Stopped
  /\ UNCHANGED <<nextID, pending, readErr, done, conn, onWire, chan, call, id,
                 ctxDone, got, closer, writes>>

(* Close waits for the reader without closing the socket it reads.         *)
CloseWaitsOnly ==
  /\ closer = "none"
  /\ closer' = "waiting"
  /\ UNCHANGED <<nextID, pending, readErr, done, conn, onWire, reader, chan,
                 call, id, ctxDone, got, writes>>
-----------------------------------------------------------------------------
(* delete(b.pending, i).                                                   *)
Without(i) == {p \in pending : p.id # i}

(* Call, under mu: refuse when the reader has failed, else take an id and  *)
(* register the channel on it.                                             *)
Register(c) ==
  /\ call[c] = "idle"
  /\ \/ /\ readErr
        /\ call' = [call EXCEPT ![c] = "failed"]
        /\ UNCHANGED <<nextID, pending, id>>
     \/ /\ ~readErr
        /\ nextID' = nextID + 1
        /\ id' = [id EXCEPT ![c] = nextID']
        /\ pending' = Without(nextID') \cup {[id |-> nextID', to |-> c]}
        /\ call' = [call EXCEPT ![c] = "registered"]
  /\ UNCHANGED <<readErr, done, conn, onWire, reader, chan, ctxDone, got,
                 closer, writes>>

Writing(c) == call[c] \in {"registered", "headed"}

(* lockedRW.Write, once for the header and once for the payload: take wmu, *)
LockWrite(c) ==
  /\ Writing(c)
  /\ wmu = None
  /\ reader # Answering
  /\ wmu' = c
  /\ UNCHANGED <<nextID, pending, readErr, done, conn, onWire, reader, chan,
                 call, id, ctxDone, got, closer, mangled>>

Mangles(c) == \E d \in Calls \ {c} : call[d] = "headed"

(* write into the socket and release it.  A write succeeds into an open    *)
(* socket, fails on one this side closed, and may do either on one the     *)
(* peer dropped.  Chrome sees a command whose frame is whole.              *)
WriteHeader(c) ==
  /\ wmu = c
  /\ call[c] = "registered"
  /\ conn # "closed"
  /\ call' = [call EXCEPT ![c] = "headed"]
  /\ mangled' = (mangled \/ Mangles(c))
  /\ wmu' = None
  /\ UNCHANGED <<nextID, pending, readErr, done, conn, onWire, reader, chan,
                 id, ctxDone, got, closer>>

WritePayload(c) ==
  /\ wmu = c
  /\ call[c] = "headed"
  /\ conn # "closed"
  /\ call' = [call EXCEPT ![c] = "waiting"]
  /\ mangled' = (mangled \/ Mangles(c))
  /\ onWire' = IF conn = "open" /\ ~mangled'
               THEN onWire \cup {[id |-> id[c], from |-> c]}
               ELSE onWire
  /\ wmu' = None
  /\ UNCHANGED <<nextID, pending, readErr, done, conn, reader, chan, id,
                 ctxDone, got, closer>>

WriteFails(c) ==
  /\ wmu = c
  /\ conn # "open"
  /\ call' = [call EXCEPT ![c] = "forgetting"]
  /\ wmu' = None
  /\ UNCHANGED <<nextID, pending, readErr, done, conn, onWire, reader, chan,
                 id, ctxDone, got, closer, mangled>>

Write(c) == WriteHeader(c) \/ WritePayload(c) \/ WriteFails(c)

(* The arms of Call's select, any of them when several are ready.          *)
ReceiveReply(c) ==
  /\ call[c] = "waiting"
  /\ chan[c] # None
  /\ got' = [got EXCEPT ![c] = chan[c]]
  /\ chan' = [chan EXCEPT ![c] = None]
  /\ call' = [call EXCEPT ![c] = "replied"]
  /\ UNCHANGED <<nextID, pending, readErr, done, conn, onWire, reader, id,
                 ctxDone, closer, writes>>

GiveUp(c) ==
  /\ call[c] = "waiting"
  /\ c \in ctxDone \/ done
  /\ call' = [call EXCEPT ![c] = "forgetting"]
  /\ UNCHANGED <<nextID, pending, readErr, done, conn, onWire, reader, chan,
                 id, ctxDone, got, closer, writes>>

(* forget, under mu, then the error return.                                *)
Forget(c) ==
  /\ call[c] = "forgetting"
  /\ pending' = Without(id[c])
  /\ call' = [call EXCEPT ![c] = "failed"]
  /\ UNCHANGED <<nextID, readErr, done, conn, onWire, reader, chan, id,
                 ctxDone, got, closer, writes>>

ContextDone(c) ==
  /\ c \notin ctxDone
  /\ Writing(c) \/ call[c] = "waiting"
  /\ ctxDone' = ctxDone \cup {c}
  /\ UNCHANGED <<nextID, pending, readErr, done, conn, onWire, reader, chan,
                 call, id, got, closer, writes>>

(* read and deliver up to the unlock: the reply's id is looked up in       *)
(* pending and removed from it.  What the buffered reader already holds is *)
(* read even after the socket is gone.                                     *)
ReadReply ==
  /\ reader = Reading
  /\ \E m \in onWire :
       /\ onWire' \in {onWire, onWire \ {m}}
       /\ pending' = Without(m.id)
       /\ \/ /\ \E p \in pending : /\ p.id = m.id
                                  /\ reader' = Handing(p.to, m.from)
          \/ /\ \A p \in pending : p.id # m.id
             /\ UNCHANGED reader
  /\ UNCHANGED <<nextID, readErr, done, conn, chan, call, id, ctxDone, got,
                 closer, writes>>

(* deliver's send, after the unlock.  It would block on a full channel.    *)
HandReply ==
  /\ reader.at = "handing"
  /\ chan[reader.to] = None
  /\ chan' = [chan EXCEPT ![reader.to] = reader.reply]
  /\ reader' = Reading
  /\ UNCHANGED <<nextID, pending, readErr, done, conn, onWire, call, id,
                 ctxDone, got, closer, writes>>

(* ReadServerText meets a control frame and answers it through lockedRW:   *)
ReadControl ==
  /\ reader = Reading
  /\ reader' = Control
  /\ UNCHANGED <<nextID, pending, readErr, done, conn, onWire, chan, call, id,
                 ctxDone, got, closer, writes>>

LockAnswer ==
  /\ reader = Control
  /\ wmu = None
  /\ reader' = Answering
  /\ UNCHANGED <<nextID, pending, readErr, done, conn, onWire, chan, call, id,
                 ctxDone, got, closer, writes>>

(* a ping is answered and reading goes on; after a close frame, or when    *)
(* the write fails, the read fails.                                        *)
WriteAnswer ==
  /\ reader = Answering
  /\ \/ /\ conn # "closed"
        /\ reader' = Reading
        /\ mangled' = (mangled \/ \E d \in Calls : call[d] = "headed")
        /\ UNCHANGED readErr
     \/ /\ reader' = Failed
        /\ readErr' = TRUE
        /\ mangled' = (mangled \/ \E d \in Calls : call[d] = "headed")
  /\ UNCHANGED <<nextID, pending, done, conn, onWire, chan, call, id,
                 ctxDone, got, closer, wmu>>

(* The read fails: the error is recorded under mu, ...                     *)
ReadFails ==
  /\ reader = Reading
  /\ conn # "open"
  /\ readErr' = TRUE
  /\ reader' = Failed
  /\ UNCHANGED <<nextID, pending, done, conn, onWire, chan, call, id, ctxDone,
                 got, closer, writes>>

(* ... and the deferred close of done runs.                                *)
ReaderReturns ==
  /\ reader = Failed
  /\ done' = TRUE
  /\ reader' = Stopped
  /\ UNCHANGED <<nextID, pending, readErr, conn, onWire, chan, call, id,
                 ctxDone, got, closer, writes>>

PeerGone ==
  /\ conn = "open"
  /\ conn' = "broken"
  /\ UNCHANGED <<nextID, pending, readErr, done, onWire, reader, chan, call,
                 id, ctxDone, got, closer, writes>>

(* Close closes the socket once and waits for the reader.                  *)
Close ==
  /\ closer = "none"
  /\ closer' = "waiting"
  /\ conn' = "closed"
  /\ UNCHANGED <<nextID, pending, readErr, done, onWire, reader, chan, call,
                 id, ctxDone, got, writes>>

CloseReturns ==
  /\ closer = "waiting"
  /\ done
  /\ closer' = "returned"
  /\ UNCHANGED <<nextID, pending, readErr, done, conn, onWire, reader, chan,
                 call, id, ctxDone, got, writes>>

Ended(c) == call[c] \in {"replied", "failed"}

Quiet ==
  /\ \A c \in Calls : Ended(c)
  /\ closer = "returned"
  /\ UNCHANGED vars

Caller(c) ==
  \/ Register(c) \/ LockWrite(c) \/ Write(c)
  \/ ReceiveReply(c) \/ GiveUp(c) \/ Forget(c)
Reader ==
  \/ ReadReply \/ HandReply
  \/ ReadControl \/ LockAnswer \/ WriteAnswer
  \/ ReadFails \/ ReaderReturns

Next ==
  \/ \E c \in Calls : Caller(c) \/ ContextDone(c)
  \/ Reader
  \/ PeerGone
  \/ Close
  \/ CloseReturns
  \/ Quiet

(* Goroutines that can run do run: a ready select fires, and a Go mutex    *)
(* does not starve its waiters.  A write into a socket that is no longer   *)
(* open ends, and a read from one ends once the buffered frames are read.  *)
(* Chrome owes no answer and need not read what is written, and nobody     *)
(* owes a call, a cancellation or a Close.                                 *)
Fairness ==
  /\ \A c \in Calls :
       /\ WF_vars(ReceiveReply(c) \/ GiveUp(c) \/ Forget(c))
       /\ SF_vars(LockWrite(c))
       /\ WF_vars(conn # "open" /\ Write(c))
  /\ WF_vars(HandReply \/ ReaderReturns)
  /\ SF_vars(LockAnswer)
  /\ WF_vars(conn # "open" /\ WriteAnswer)
  /\ SF_vars(ReadFails)
  /\ WF_vars(CloseReturns)

Spec == Init /\ [][Next]_vars /\ Fairness
-----------------------------------------------------------------------------
(* A call that returns a result returns the reply to its own command,      *)
(* whatever order Chrome answers in and however many calls were abandoned  *)
(* before: a late reply to a forgotten call reaches nobody.                *)
OwnReply == \A c \in Calls : call[c] = "replied" => got[c] = c

(* Once a call has ended nothing of it stays in pending: an abandoned      *)
(* command leaves no registration behind.                                  *)
NothingLeftPending ==
  \A c \in Calls : Ended(c) => \A p \in pending : p.to # c

(* The reader never blocks handing a reply over: the channel of a call     *)
(* that gave up still has room for the one reply it can be sent.           *)
ReaderNeverBlocks == reader.at = "handing" => chan[reader.to] = None

(* Every call that waits for its reply when its context is done or the     *)
(* reader has stopped returns, and so does every call in flight when the   *)
(* socket is gone, including those blocked in a write or behind the lock   *)
(* of one that is.                                                         *)
CallsReturn ==
  \A c \in Calls :
    (\/ call[c] = "waiting" /\ (c \in ctxDone \/ done)
     \/ (Writing(c) \/ call[c] = "waiting") /\ conn # "open")
      ~> Ended(c)

(* cdpattach.go says "a call returns as soon as its context is done":      *)
(* also one that has yet to write its command.                             *)
ReturnsOnceDone ==
  \A c \in Calls : (Writing(c) /\ c \in ctxDone) ~> Ended(c)

(* cdpattach.go says writes are serialized "so a control frame the reader  *)
(* answers never interleaves with a command a caller writes".              *)
FramesNotInterleaved == ~mangled

(* Close returns: the reader it waits for is never stuck, not even behind  *)
(* a write that Chrome does not read.                                      *)
CloseEnds == (closer = "waiting") ~> (closer = "returned")
=============================================================================
