---------------------------- MODULE TcpPublisher ----------------------------
(***************************************************************************)
(* tcp_pubsub/src/publisher_impl.cpp and publisher_session.cpp: a          *)
(* publisher that accepts connections and keeps one session per subscriber *)
(* with a 1-element send queue.                                            *)
(*                                                                         *)
(* The handlers of the accept chain, of every session and the threads that *)
(* call send and cancel run in parallel.  The handlers of one session      *)
(* share a strand: one of them runs at a time.  An action is a handler up  *)
(* to the next point where another thread can tell the difference: a       *)
(* change of the atomic state_, or a critical section of                   *)
(* publisher_sessions_mutex_ or next_buffer_mutex_.  The peer and the      *)
(* network decide what a read returns and whether a transfer fails.        *)
(*                                                                         *)
(* A frame is a number, the data frames being 1, 2, ... in the order of    *)
(* the calls to send, and Handshake the response to the handshake.         *)
(***************************************************************************)
EXTENDS Integers, Sequences, SequencesExt

CONSTANTS
  Sessions,       \* PublisherSession objects, one per accepted connection
  NoSession,      \* the session of a pending accept past the bound Sessions
  Cancellers,     \* threads that call cancel, the destructor's included
  MaxFrames       \* bound: calls to send

VARIABLES
  running,    \* is_running_
  listening,  \* acceptor_ is open and listens
  accept,     \* the async_accept chain: where it is and its session
  list,       \* publisher_sessions_
  state,      \* state_ of each session
  open,       \* its data_socket_
  read,       \* its outstanding async_read, "none" when there is none
  strand,     \* where the handler on its strand is, "free" when none runs
  sending,    \* sending_in_progress_
  next,       \* next_buffer_to_send_, 0 for the null pointer
  out,        \* its outstanding async_writes, in the order of the calls
  wire,       \* the frames its subscriber was sent before it was canceled
  frames,     \* calls to send so far
  cancel      \* each cancel call: where it is and its copy of the list

connection == <<state, open, read, strand>>
buffers == <<sending, next, out, wire>>
vars == <<running, listening, accept, list, connection, buffers, frames, cancel>>

Handshake == -1

Init ==
  /\ running = FALSE /\ listening = FALSE /\ list = {}
  /\ accept = [at |-> "none", s |-> NoSession]
  /\ state = [s \in Sessions |-> "NotStarted"]
  /\ open = [s \in Sessions |-> FALSE]
  /\ read = [s \in Sessions |-> "none"]
  /\ strand = [s \in Sessions |-> "free"]
  /\ sending = [s \in Sessions |-> FALSE]
  /\ next = [s \in Sessions |-> 0]
  /\ out = [s \in Sessions |-> <<>>]
  /\ wire = [s \in Sessions |-> <<>>]
  /\ frames = 0
  /\ cancel = [c \in Cancellers |-> [at |-> "idle", todo |-> {}]]

-----------------------------------------------------------------------------
(* Accepting connections *)

acceptClient ==
  \E s \in IF \E x \in Sessions : state[x] = "NotStarted" /\ x # accept.s
           THEN {x \in Sessions : state[x] = "NotStarted" /\ x # accept.s}
           ELSE {NoSession} :
    accept' = [at |-> "pending", s |-> s]

(* start returns false, and changes nothing, when the address cannot be     *)
(* parsed, bound or listened on; the constructor calls it once.             *)
start ==
  /\ ~listening /\ ~running /\ accept.at = "none"
  /\ \A c \in Cancellers : cancel[c].at = "idle"
  /\ listening' = TRUE /\ running' = TRUE
  /\ acceptClient
  /\ UNCHANGED <<list, connection, buffers, frames, cancel>>

(* A connection arrives; the handler starts the session before it lists it. *)
Accepted ==
  /\ accept.at = "pending" /\ listening /\ accept.s \in Sessions
  /\ state' = [state EXCEPT ![accept.s] = "Handshaking"]
  /\ open' = [open EXCEPT ![accept.s] = TRUE]
  /\ read' = [read EXCEPT ![accept.s] = "length"]
  /\ accept' = [accept EXCEPT !.at = "listing"]
  /\ UNCHANGED <<running, listening, list, strand, buffers, frames, cancel>>

ListSession ==
  /\ accept.at = "listing"
  /\ list' = list \cup {accept.s}
  /\ acceptClient
  /\ UNCHANGED <<running, listening, connection, buffers, frames, cancel>>

(* The handler returns on an error, and nothing accepts any more. *)
AcceptFailed ==
  /\ accept.at = "pending"
  /\ accept' = [at |-> "none", s |-> NoSession]
  /\ UNCHANGED <<running, listening, list, connection, buffers, frames, cancel>>

-----------------------------------------------------------------------------
(* A session *)

(* sessionClosedHandler up to session_closed_handler_, on the strand. *)
sessionClosedHandler(s) ==
  /\ state' = [state EXCEPT ![s] = "Canceled"]
  /\ open' = [open EXCEPT ![s] = FALSE]
  /\ strand' = [strand EXCEPT ![s] =
                  IF state[s] = "Canceled" THEN "free" ELSE "erase"]

SessionClosed(s) ==
  /\ strand[s] = "erase"
  /\ list' = list \ {s}
  /\ strand' = [strand EXCEPT ![s] = "free"]
  /\ UNCHANGED <<running, listening, accept, state, open, read, buffers,
                 frames, cancel>>

(* A read succeeded, if need be before the socket was closed: what the next *)
(* function of the chain does.                                              *)
Continue(s, stages) ==
  /\ strand[s] = "free"
  /\ \/ /\ state[s] = "Canceled"
        /\ read' = [read EXCEPT ![s] = "none"]
        /\ UNCHANGED <<state, open, strand>>
     \/ /\ state[s] # "Canceled"
        /\ \E stage \in stages : read' = [read EXCEPT ![s] = stage]
        /\ UNCHANGED <<state, open, strand>>
     \/ /\ state[s] # "Canceled"          \* malformed
        /\ read' = [read EXCEPT ![s] = "none"]
        /\ sessionClosedHandler(s)
  /\ UNCHANGED <<running, listening, accept, list, buffers, frames, cancel>>

readHeaderContent(s) == read[s] = "length" /\ Continue(s, {"content"})
readPayload(s) == read[s] = "content" /\ Continue(s, {"discard", "payload"})
discardDataBetweenHeaderAndPayload(s) ==
  read[s] = "discard" /\ Continue(s, {"payload"})
NotAHandshake(s) == read[s] = "payload" /\ Continue(s, {})

(* The handshake arrived: its response is written without sending_. *)
sendProtocolHandshakeResponse(s) ==
  /\ strand[s] = "free" /\ read[s] = "payload"
  /\ state[s] # "Canceled"
  /\ read' = [read EXCEPT ![s] = "none"]
  /\ out' = [out EXCEPT ![s] = Append(@, Handshake)]
  /\ strand' = [strand EXCEPT ![s] = "exchange"]
  /\ UNCHANGED <<running, listening, accept, list, state, open, sending, next,
                 wire, frames, cancel>>

ExchangeState(s) ==
  /\ strand[s] = "exchange"
  /\ state' = [state EXCEPT ![s] = "Running"]
  /\ strand' = [strand EXCEPT ![s] =
                  IF state[s] = "Handshaking" THEN "free" ELSE "restore"]
  /\ UNCHANGED <<running, listening, accept, list, open, read, buffers, frames,
                 cancel>>

RestoreState(s) ==
  /\ strand[s] = "restore"
  /\ state' = [state EXCEPT ![s] = "Canceled"]
  /\ strand' = [strand EXCEPT ![s] = "free"]
  /\ UNCHANGED <<running, listening, accept, list, open, read, buffers, frames,
                 cancel>>

ReadFailed(s) ==
  /\ strand[s] = "free" /\ read[s] # "none"
  /\ read' = [read EXCEPT ![s] = "none"]
  /\ sessionClosedHandler(s)
  /\ UNCHANGED <<running, listening, accept, list, buffers, frames, cancel>>

-----------------------------------------------------------------------------
(* Sending *)

(* Faulty variant: a session that is still handshaking is written to. *)
StartsWrite_Handshaking(s) == ~sending[s]

(* sendDataBuffer on every listed session, under publisher_sessions_mutex_; *)
(* send returns before that when the publisher does not run or the list is  *)
(* empty, which the guard leaves out: nothing changes.                      *)
StartsWrite(s) == state[s] = "Running" /\ ~sending[s]

sendDataBuffer(m) ==
  LET live == {s \in list : state[s] # "Canceled"}
      now == {s \in live : StartsWrite(s)}
  IN /\ sending' = [s \in Sessions |-> sending[s] \/ s \in now]
     /\ out' = [s \in Sessions |-> IF s \in now THEN Append(out[s], m) ELSE out[s]]
     /\ next' = [s \in Sessions |-> IF s \in live \ now THEN m ELSE next[s]]

send ==
  /\ running /\ list # {} /\ frames < MaxFrames
  /\ frames' = frames + 1
  /\ sendDataBuffer(frames + 1)
  /\ UNCHANGED <<running, listening, accept, list, connection, wire, cancel>>

(* Faulty variant: the write ends and the kept frame waits for a send. *)
TakeNext_Waits(s, i) ==
  /\ out' = [out EXCEPT ![s] = RemoveAt(@, i)]
  /\ sending' = [sending EXCEPT ![s] = FALSE]
  /\ UNCHANGED next

(* A write completed: the handler of sendBufferToClient.  The handshake is  *)
(* shorter than any socket buffer and is written when it is started; data   *)
(* frames whose writes overlap can finish in any order.                     *)
TakeNext(s, i) ==
  IF next[s] # 0
  THEN /\ out' = [out EXCEPT ![s] = Append(RemoveAt(@, i), next[s])]
       /\ next' = [next EXCEPT ![s] = 0]
       /\ UNCHANGED sending
  ELSE /\ out' = [out EXCEPT ![s] = RemoveAt(@, i)]
       /\ sending' = [sending EXCEPT ![s] = FALSE]
       /\ UNCHANGED next

sendBufferToClient(s, i) ==
  /\ strand[s] = "free" /\ i \in DOMAIN out[s]
  /\ i = 1 \/ Head(out[s]) # Handshake
  /\ \/ /\ state[s] = "Canceled"
        /\ out' = [out EXCEPT ![s] = RemoveAt(@, i)]
        /\ UNCHANGED <<sending, next, wire>>
     \/ /\ state[s] # "Canceled"
        /\ wire' = [wire EXCEPT ![s] = Append(@, out[s][i])]
        /\ TakeNext(s, i)
  /\ UNCHANGED <<running, listening, accept, list, connection, frames, cancel>>

WriteFailed(s, i) ==
  /\ strand[s] = "free" /\ i \in DOMAIN out[s]
  /\ out' = [out EXCEPT ![s] = RemoveAt(@, i)]
  /\ sessionClosedHandler(s)
  /\ UNCHANGED <<running, listening, accept, list, read, sending, next, wire,
                 frames, cancel>>

-----------------------------------------------------------------------------
(* Publisher_Impl::cancel *)

CloseAcceptor(c) ==
  /\ cancel[c].at = "idle"
  /\ listening' = FALSE
  /\ cancel' = [cancel EXCEPT ![c].at = "copy"]
  /\ UNCHANGED <<running, accept, list, connection, buffers, frames>>

CopyList(c) ==
  /\ cancel[c].at = "copy"
  /\ running' = FALSE
  /\ cancel' = [cancel EXCEPT ![c] = [at |-> "sessions", todo |-> list]]
  /\ UNCHANGED <<listening, accept, list, connection, buffers, frames>>

(* session->cancel(), a sessionClosedHandler off the strand. *)
CancelSession(c, s) ==
  /\ cancel[c].at = "sessions" /\ s \in cancel[c].todo
  /\ state' = [state EXCEPT ![s] = "Canceled"]
  /\ open' = [open EXCEPT ![s] = FALSE]
  /\ cancel' = [cancel EXCEPT ![c] =
                  IF state[s] = "Canceled" THEN [@ EXCEPT !.todo = @ \ {s}]
                  ELSE [at |-> s, todo |-> @.todo \ {s}]]
  /\ UNCHANGED <<running, listening, accept, list, read, strand, buffers,
                 frames>>

CancelErases(c) ==
  /\ cancel[c].at \in Sessions
  /\ list' = list \ {cancel[c].at}
  /\ cancel' = [cancel EXCEPT ![c].at = "sessions"]
  /\ UNCHANGED <<running, listening, accept, connection, buffers, frames>>

CancelReturns(c) ==
  /\ cancel[c] = [at |-> "sessions", todo |-> {}]
  /\ cancel' = [cancel EXCEPT ![c].at = "returned"]
  /\ UNCHANGED <<running, listening, accept, list, connection, buffers, frames>>

-----------------------------------------------------------------------------
SessionStep(s) ==
  \/ SessionClosed(s)
  \/ readHeaderContent(s) \/ readPayload(s) \/ NotAHandshake(s)
  \/ discardDataBetweenHeaderAndPayload(s)
  \/ sendProtocolHandshakeResponse(s) \/ ExchangeState(s) \/ RestoreState(s)
  \/ ReadFailed(s)
  \/ \E i \in 1..Len(out[s]) : sendBufferToClient(s, i) \/ WriteFailed(s, i)

CancelStep(c) ==
  \/ CloseAcceptor(c) \/ CopyList(c) \/ CancelErases(c) \/ CancelReturns(c)
  \/ \E s \in Sessions : CancelSession(c, s)

Next ==
  \/ start \/ Accepted \/ ListSession \/ AcceptFailed \/ send
  \/ \E s \in Sessions : SessionStep(s)
  \/ \E c \in Cancellers : CancelStep(c)

Spec == Init /\ [][Next]_vars

(* The executor's threads run a handler that is ready, a transfer that was  *)
(* started ends one way or the other, a closed socket or acceptor ends what *)
(* is outstanding on it, and a cancel call that began goes on.  No          *)
(* connection, no answer of a peer and no call of the application is        *)
(* assumed.                                                                 *)
Fairness ==
  /\ WF_vars(ListSession) /\ WF_vars(~listening /\ AcceptFailed)
  /\ \A s \in Sessions :
       /\ WF_vars(SessionClosed(s))
       /\ WF_vars(ExchangeState(s) \/ RestoreState(s))
       /\ WF_vars(~open[s] /\ ReadFailed(s))
       /\ WF_vars(\E i \in 1..Len(out[s]) :
                    sendBufferToClient(s, i) \/ WriteFailed(s, i))
  /\ \A c \in Cancellers :
       WF_vars(cancel[c].at # "idle" /\ CancelStep(c))

FairSpec == Spec /\ Fairness

-----------------------------------------------------------------------------
(* A subscriber sees the handshake response before any data, also when send *)
(* is called while the response is on its way (publisher_session.cpp,       *)
(* sendDataBuffer and sendProtocolHandshakeResponse).                       *)
HandshakeFirst ==
  \A s \in Sessions : \A i \in DOMAIN wire[s] : (wire[s][i] = Handshake) <=> (i = 1)

(* Once the accept handler is done with it, a connection that is open is in *)
(* publisher_sessions_, where send and cancel find it: a session leaves the *)
(* list only after its socket was closed (publisher_session.cpp,            *)
(* sessionClosedHandler).                                                   *)
OpenIsListed ==
  \A s \in Sessions :
    open[s] => s \in list \/ accept = [at |-> "listing", s |-> s]

(* The frame kept in next_buffer_to_send_ of a running session is sent, by  *)
(* whichever write ends next, the handshake response included               *)
(* (publisher_session.cpp, the handler of sendBufferToClient).              *)
NextIsSentTo(s) ==
  (state[s] = "Running" /\ next[s] # 0) ~> (state[s] # "Running" \/ next[s] = 0)

=============================================================================
