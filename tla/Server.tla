-------------------------------- MODULE Server --------------------------------
(***************************************************************************)
(* `githerb review`, the process that is left open all day: the listener   *)
(* and a thread for every connection (crates/web/src/http.rs), the parser  *)
(* that reads one request off it (request.rs), the table of routes         *)
(* (routes.rs), the mutex they share (surface.rs), the runner alongside    *)
(* and what happens when the process is told to stop (src/daemon.rs).      *)
(*                                                                         *)
(* A request is the pieces a client sends: lines, and after the empty one  *)
(* the bytes of its body.  Clients send, stall, stop reading and leave     *)
(* whenever they like.                                                     *)
(*                                                                         *)
(* Abstracted: a route is the kind of handler behind it, and a handler is  *)
(* the lock it takes and what it answers; what streams send is in Surface, *)
(* what the runner does in Runner.                                         *)
(***************************************************************************)
EXTENDS Integers, Sequences, FiniteSets, SequencesExt

CONSTANTS Conns,       \* the connections clients open
          Requests,    \* what the client of each may send, each a sequence of pieces
          MaxHeaders,  \* MAX_HEADERS
          MaxBody,     \* MAX_BODY
          MaxPanics,   \* bound on the handlers that panic
          Nobody       \* holds the mutex when it is free

(* A request line, a header, one that says how long the body is, the empty *)
(* line, a byte; and lines that are none of these: too long, without the   *)
(* words or the colon, with a length that is no number, not UTF-8.         *)
RequestLines == [kind : {"request"}, verb : {"GET", "HEAD", "POST", "PUT"},
                 route : {"page", "events", "write", "nowhere"}]
LengthLines  == [kind : {"length"}, bytes : Nat]
OtherPieces  == [kind : {"header", "end", "byte", "oversize", "wordless", "colonless",
                         "garbled", "binary"}]
Pieces       == RequestLines \cup LengthLines \cup OtherPieces

ASSUME ServerAssumption ==
    /\ \A c \in Conns : Requests[c] \subseteq Seq(Pieces)
    /\ {MaxHeaders, MaxBody, MaxPanics} \subseteq Nat
    /\ Nobody \notin Conns

VARIABLES
    asked,     \* asked[c]   : the request the client of c means to send
    client,    \* client[c]  : what it is doing
    sent,      \* sent[c]    : how many pieces it has sent
    got,       \* got[c]     : the answer it has received
    stage,     \* stage[c]   : where the thread of c is
    read,      \* read[c]    : how many pieces the thread has read
    headers,   \* headers[c] : the header lines it has kept
    left,      \* left[c]    : the bytes of the body still to be read
    reply,     \* reply[c]   : the answer it is about to write
    holder,    \* who has the mutex of the snapshot
    poisoned,  \* whether somebody panicked with it
    panicked,  \* the connections whose handler did
    wrote,     \* the connections whose command has been carried out
    main,      \* where the main thread is; out of "serving", Surface::stopped is set
    runner,    \* where the runner's thread is: "ended" too when there is none
    shutdown   \* the flag

parser  == <<read, headers, left>>
clients == <<asked, client, sent>>
process == <<main, runner, shutdown>>
mutex   == <<holder, poisoned>>
effects == <<panicked, wrote>>
vars    == <<clients, got, stage, parser, reply, mutex, effects, process>>

Nothing        == [status |-> 0, body |-> FALSE]
Says(status)   == [status |-> status, body |-> TRUE]
Malformed      == Says(400)
TooLarge       == Says(413)
EventStream    == Says(200)

Init ==
    /\ asked \in {f \in [Conns -> UNION {Requests[c] : c \in Conns}] : \A c \in Conns : f[c] \in Requests[c]}
    /\ client = [c \in Conns |-> "here"]
    /\ sent = [c \in Conns |-> 0]
    /\ got = [c \in Conns |-> Nothing]
    /\ stage = [c \in Conns |-> "queued"]
    /\ read = [c \in Conns |-> 0]
    /\ headers = [c \in Conns |-> <<>>]
    /\ left = [c \in Conns |-> 0]
    /\ reply = [c \in Conns |-> Nothing]
    /\ holder = Nobody
    /\ poisoned = FALSE
    /\ panicked = {}
    /\ wrote = {}
    /\ main = "serving"
    /\ runner \in {"passing", "ended"}
    /\ shutdown = FALSE

GoesTo(c, s) == stage' = [stage EXCEPT ![c] = s]

(* The thread returns, and what it had read goes with it.                  *)
Closes(c) ==
    /\ GoesTo(c, "closed")
    /\ read' = [read EXCEPT ![c] = 0]
    /\ headers' = [headers EXCEPT ![c] = <<>>]
    /\ left' = [left EXCEPT ![c] = 0]
    /\ reply' = [reply EXCEPT ![c] = Nothing]

Answers(c, r) == reply' = [reply EXCEPT ![c] = r] /\ GoesTo(c, "replying")

-----------------------------------------------------------------------------
(* Clients.  A connection waits in the listener's queue until it is accepted. *)

Send(c) ==
    /\ client[c] = "here" /\ stage[c] # "closed" /\ sent[c] < Len(asked[c])
    /\ sent' = [sent EXCEPT ![c] = @ + 1]
    /\ UNCHANGED <<asked, client, got, stage, parser, reply, mutex, effects, process>>

(* It closes the connection; or its buffers are full, and it reads no more *)
(* of its answer.                                                          *)
Turn(c) ==
    /\ client[c] = "here" /\ stage[c] # "closed"
    /\ \/ client' = [client EXCEPT ![c] = "left"]
       \/ /\ stage[c] \in {"replying", "events", "streaming"}
          /\ client' = [client EXCEPT ![c] = "deaf"]
    /\ UNCHANGED <<asked, sent, got, stage, parser, reply, mutex, effects, process>>

-----------------------------------------------------------------------------
(* Request::parse. *)

(* A connection at a time, the next one when this one is over.             *)
AcceptOneAtATime(c) ==
    /\ main = "serving" /\ stage[c] = "queued"
    /\ \A d \in Conns : stage[d] \in {"queued", "closed"}
    /\ GoesTo(c, "line")
    /\ UNCHANGED <<clients, got, parser, reply, mutex, effects, process>>

Accept(c) ==
    /\ main = "serving" /\ stage[c] = "queued"
    /\ GoesTo(c, "line")
    /\ UNCHANGED <<clients, got, parser, reply, mutex, effects, process>>

Reading(c) == stage[c] \in {"line", "headers", "body"}
Pending(c) == read[c] < sent[c]
Piece(c)   == asked[c][read[c] + 1]
Takes(c)   == read' = [read EXCEPT ![c] = @ + 1]

Refuse(c, r) ==
    /\ Takes(c) /\ Answers(c, r)
    /\ UNCHANGED <<clients, got, headers, left, mutex, effects, process>>

ReadRequestLine(c) ==
    /\ Reading(c) /\ stage[c] = "line" /\ Pending(c) /\ Piece(c).kind = "request"
    /\ Takes(c) /\ GoesTo(c, "headers")
    /\ UNCHANGED <<clients, got, headers, left, reply, mutex, effects, process>>

RefuseRequestLine(c) ==
    /\ Reading(c) /\ stage[c] = "line" /\ Pending(c)
    /\ Piece(c).kind \notin {"request", "binary"}
    /\ Refuse(c, Malformed)

IsHeader(piece) == piece.kind \in {"header", "length", "garbled"}

ReadHeader(c) ==
    /\ Reading(c) /\ stage[c] = "headers" /\ Pending(c)
    /\ IsHeader(Piece(c)) /\ Len(headers[c]) < MaxHeaders
    /\ Takes(c)
    /\ headers' = [headers EXCEPT ![c] = Append(@, Piece(c))]
    /\ UNCHANGED <<clients, got, stage, left, reply, mutex, effects, process>>

RefuseHeader(c) ==
    /\ Reading(c) /\ stage[c] = "headers" /\ Pending(c)
    /\ Piece(c).kind \notin {"end", "binary"}
    /\ IsHeader(Piece(c)) => Len(headers[c]) >= MaxHeaders
    /\ Refuse(c, Malformed)

(* content_length: what the first header of that name says, and no other.  *)
LengthAt(lines) == SelectInSeq(lines, LAMBDA h : h.kind # "header")
LengthOf(lines) == IF LengthAt(lines) = 0 THEN 0 ELSE lines[LengthAt(lines)].bytes
Garbled(lines)  == LengthAt(lines) # 0 /\ lines[LengthAt(lines)].kind # "length"

AtEnd(c) == Reading(c) /\ stage[c] = "headers" /\ Pending(c) /\ Piece(c).kind = "end"

ReadEnd(c) ==
    /\ AtEnd(c) /\ ~Garbled(headers[c]) /\ LengthOf(headers[c]) <= MaxBody
    /\ Takes(c) /\ GoesTo(c, "body")
    /\ left' = [left EXCEPT ![c] = LengthOf(headers[c])]
    /\ UNCHANGED <<clients, got, headers, reply, mutex, effects, process>>

RefuseLength(c) ==
    /\ AtEnd(c)
    /\ \/ Garbled(headers[c]) /\ Refuse(c, Malformed)
       \/ ~Garbled(headers[c]) /\ LengthOf(headers[c]) > MaxBody /\ Refuse(c, TooLarge)

ReadByte(c) ==
    /\ Reading(c) /\ stage[c] = "body" /\ left[c] > 0 /\ Pending(c)
    /\ Takes(c)
    /\ left' = [left EXCEPT ![c] = @ - 1]
    /\ UNCHANGED <<clients, got, stage, headers, reply, mutex, effects, process>>

(* Rejected::Gone, which nothing answers: a line that is not text, nothing *)
(* for as long as READ_TIMEOUT, or the end of the connection.              *)
Gone(c) ==
    /\ Reading(c)
    /\ \/ stage[c] # "body" /\ Pending(c) /\ Piece(c).kind = "binary"
       \/ ~Pending(c) /\ (stage[c] = "body" => left[c] > 0)
    /\ Closes(c)
    /\ UNCHANGED <<clients, got, mutex, effects, process>>

(* The connection ends in the middle of a line.                            *)
Torn(c) ==
    /\ Reading(c) /\ stage[c] # "body" /\ ~Pending(c) /\ client[c] = "left"
    /\ Answers(c, Malformed)
    /\ UNCHANGED <<clients, got, parser, mutex, effects, process>>

-----------------------------------------------------------------------------
(* routes.rs and http.rs answer. *)

Verb(c)  == asked[c][1].verb
Route(c) == asked[c][1].route

Missing(c) == Route(c) = "nowhere"
Allows(route, verb) ==
    CASE route = "page"   -> verb \in {"GET", "HEAD"}
      [] route = "events" -> verb = "GET"
      [] route = "write"  -> verb = "POST"

(* Sending a HEAD the body too.                                            *)
AnswerInFull(c, status) == [status |-> status, body |-> status # 204]

(* Body::Omit: a HEAD is answered with the headers alone.                  *)
Answer(c, status) == [status |-> status, body |-> Verb(c) # "HEAD" /\ status # 204]

(* Going on with whatever of the body there is.                            *)
DispatchWhatThereIs(c) ==
    /\ Reading(c) /\ stage[c] = "body"
    /\ \/ Missing(c) /\ Answers(c, Answer(c, 404))
       \/ ~Missing(c) /\ ~Allows(Route(c), Verb(c)) /\ Answers(c, Answer(c, 405))
       \/ /\ ~Missing(c) /\ Allows(Route(c), Verb(c))
          /\ GoesTo(c, Route(c)) /\ UNCHANGED reply
    /\ UNCHANGED <<clients, got, parser, mutex, effects, process>>

Dispatch(c) ==
    /\ Reading(c) /\ stage[c] = "body" /\ left[c] = 0
    /\ \/ Missing(c) /\ Answers(c, Answer(c, 404))
       \/ ~Missing(c) /\ ~Allows(Route(c), Verb(c)) /\ Answers(c, Answer(c, 405))
       \/ /\ ~Missing(c) /\ Allows(Route(c), Verb(c))
          /\ GoesTo(c, Route(c)) /\ UNCHANGED reply
    /\ UNCHANGED <<clients, got, parser, mutex, effects, process>>

(* Surface::snapshot, by the mutex as it was left.                         *)
Lock(c) ==
    /\ stage[c] = "page" /\ holder = Nobody
    /\ holder' = c /\ GoesTo(c, "locked")
    /\ UNCHANGED <<clients, got, parser, reply, poisoned, effects, process>>

(* The page, or that there is none, or that git refused.                   *)
Draw(c) ==
    /\ stage[c] = "locked"
    /\ holder' = Nobody
    /\ \E status \in {200, 400, 404, 500} : Answers(c, Answer(c, status))
    /\ UNCHANGED <<clients, got, parser, poisoned, effects, process>>

(* The command runs; Surface::wrote or Surface::refuse.                    *)
Write(c) ==
    /\ stage[c] = "write"
    /\ \/ Answers(c, Answer(c, 204)) /\ wrote' = wrote \cup {c}
       \/ /\ \E status \in {400, 404, 500} : Answers(c, Answer(c, status))
          /\ UNCHANGED wrote
    /\ UNCHANGED <<clients, got, parser, mutex, panicked, process>>

Panic(c) ==
    /\ stage[c] \in {"locked", "write"} /\ Cardinality(panicked) < MaxPanics
    /\ Answers(c, Answer(c, 500))
    /\ panicked' = panicked \cup {c}
    /\ poisoned' = (poisoned \/ holder = c)
    /\ holder' = IF holder = c THEN Nobody ELSE holder
    /\ UNCHANGED <<clients, got, parser, wrote, process>>

(* Response::write_to, and the connection closes.                          *)
Reply(c) ==
    /\ stage[c] = "replying" /\ client[c] # "deaf"
    /\ got' = IF client[c] = "here" THEN [got EXCEPT ![c] = reply[c]] ELSE got
    /\ Closes(c)
    /\ UNCHANGED <<clients, mutex, effects, process>>

OpenStream(c) ==
    /\ stage[c] = "events" /\ client[c] # "deaf"
    /\ got' = IF client[c] = "here" THEN [got EXCEPT ![c] = EventStream] ELSE got
    /\ GoesTo(c, "streaming")
    /\ UNCHANGED <<clients, parser, reply, mutex, effects, process>>

(* The client has left, the server stops, or the feed panicked.            *)
EndStream(c) ==
    /\ stage[c] = "streaming" /\ client[c] # "deaf"
    /\ IF main # "serving" \/ client[c] = "left" THEN UNCHANGED panicked
       ELSE Cardinality(panicked) < MaxPanics /\ panicked' = panicked \cup {c}
    /\ Closes(c)
    /\ UNCHANGED <<clients, got, mutex, wrote, process>>

-----------------------------------------------------------------------------
(* The process. *)

Signal ==
    /\ main = "serving" /\ ~shutdown
    /\ shutdown' = TRUE
    /\ UNCHANGED <<clients, got, stage, parser, reply, mutex, effects, main, runner>>

(* Going to join the runner without the flag.                              *)
StopServingOnly ==
    /\ main = "serving"
    /\ main' = "joining"
    /\ UNCHANGED <<clients, got, stage, parser, reply, mutex, effects, runner, shutdown>>

(* Server::serve ends, by the flag or an error of the listener; the        *)
(* streams are told, and with the flag the runner.                         *)
StopServing ==
    /\ main = "serving"
    /\ main' = "joining"
    /\ shutdown' = TRUE
    /\ UNCHANGED <<clients, got, stage, parser, reply, mutex, effects, runner>>

SeesTheFlag == shutdown /\ StopServing
Breaks      == ~shutdown /\ StopServing

(* The main thread returns, and every thread that is left ends with it.    *)
Exit ==
    /\ main = "joining" /\ runner = "ended"
    /\ main' = "exited"
    /\ stage' = [c \in Conns |-> "closed"]
    /\ read' = [c \in Conns |-> 0]
    /\ headers' = [c \in Conns |-> <<>>]
    /\ left' = [c \in Conns |-> 0]
    /\ reply' = [c \in Conns |-> Nothing]
    /\ holder' = Nobody
    /\ UNCHANGED <<clients, got, poisoned, effects, runner, shutdown>>

(* Runner::run: a pass, a wait, and the flag after either; or it panics.   *)
EndPass ==
    /\ runner = "passing"
    /\ runner' \in IF shutdown THEN {"ended"} ELSE {"waiting", "ended"}
    /\ UNCHANGED <<clients, got, stage, parser, reply, mutex, effects, main, shutdown>>

EndWait ==
    /\ runner = "waiting"
    /\ runner' = IF shutdown THEN "ended" ELSE "passing"
    /\ UNCHANGED <<clients, got, stage, parser, reply, mutex, effects, main, shutdown>>

Thread(c) ==
    \/ Accept(c)
    \/ ReadRequestLine(c) \/ RefuseRequestLine(c) \/ ReadHeader(c) \/ RefuseHeader(c)
    \/ ReadEnd(c) \/ RefuseLength(c) \/ ReadByte(c) \/ Gone(c) \/ Torn(c)
    \/ Dispatch(c) \/ Lock(c) \/ Draw(c) \/ Write(c) \/ Reply(c) \/ OpenStream(c)

Process == SeesTheFlag \/ Exit
RunnerThread == EndPass \/ EndWait

Next ==
    \/ \E c \in Conns : Send(c) \/ Turn(c) \/ Thread(c) \/ Panic(c) \/ EndStream(c)
    \/ Process \/ RunnerThread \/ Breaks \/ Signal

(* Threads run, git and the handlers' commands end, a pass of the runner   *)
(* ends.  Nothing is asked of clients, and nobody has to press ctrl-c.     *)
Fairness ==
    /\ \A c \in Conns : WF_vars(Thread(c))
    /\ WF_vars(Process)
    /\ WF_vars(RunnerThread)

Safety == Init /\ [][Next]_vars
Spec   == Safety /\ Fairness

-----------------------------------------------------------------------------
(* Properties. *)

(* No thread reads more than its client has sent; the rest are types.      *)
Handling == {"page", "locked", "write", "events", "streaming"}
Replies  == [status : Nat, body : BOOLEAN]
TypeOK ==
    /\ asked \in [Conns -> Seq(Pieces)]
    /\ client \in [Conns -> {"here", "deaf", "left"}]
    /\ sent \in [Conns -> Nat] /\ read \in [Conns -> Nat]
    /\ \A c \in Conns : read[c] <= sent[c] /\ sent[c] <= Len(asked[c])
    /\ got \in [Conns -> Replies] /\ reply \in [Conns -> Replies]
    /\ stage \in [Conns -> {"queued", "line", "headers", "body", "replying", "closed"} \cup Handling]
    /\ headers \in [Conns -> Seq(Pieces)]
    /\ left \in [Conns -> Nat]
    /\ holder \in Conns \cup {Nobody}
    /\ panicked \subseteq Conns /\ wrote \subseteq Conns
    /\ main \in {"serving", "joining", "exited"}
    /\ runner \in {"passing", "waiting", "ended"}
    /\ poisoned \in BOOLEAN /\ shutdown \in BOOLEAN

(* What a request is, said of all of it at once: where its head ends, what *)
(* is wrong with the head, and how long it says its body is.               *)
HeadEnd(request)    == SelectInSeq(request, LAMBDA p : p.kind = "end")
HeadLines(request)  == SubSeq(request, 2, HeadEnd(request) - 1)
Bytes(request)      == LengthOf(HeadLines(request))
WellFormed(request) ==
    /\ HeadEnd(request) # 0
    /\ request[1].kind = "request"
    /\ \A i \in DOMAIN HeadLines(request) : IsHeader(HeadLines(request)[i])
    /\ Len(HeadLines(request)) <= MaxHeaders
    /\ ~Garbled(HeadLines(request))

(* A handler runs for requests that have arrived to the last byte, and is  *)
(* given as many bytes as the head promised: whatever a client sends, and  *)
(* wherever it stops, nothing is read or written for half a request.       *)
(* (request.rs, Request::parse; http.rs, answer)                           *)
HandlersSeeWholeRequests ==
    \A c \in Conns :
        stage[c] \in Handling
        => /\ WellFormed(asked[c])
           /\ Bytes(asked[c]) <= MaxBody
           /\ read[c] = HeadEnd(asked[c]) + Bytes(asked[c])
           /\ read[c] <= sent[c]

(* The answers the request of c may have, on its own account.              *)
Statuses(c) ==
    IF Missing(c) THEN {404}
    ELSE IF ~Allows(Route(c), Verb(c)) THEN {405}
    ELSE IF c \in panicked /\ Route(c) # "events" THEN {500}
    ELSE IF Route(c) = "page" THEN {200, 400, 404, 500}
    ELSE IF Route(c) = "events" THEN {200}
    ELSE IF c \in wrote THEN {204} ELSE {400, 404, 500}

Deserves(c, answer) ==
    IF ~WellFormed(asked[c]) THEN answer = Malformed
    ELSE IF Bytes(asked[c]) > MaxBody THEN answer = TooLarge
    ELSE /\ answer.body <=> Verb(c) # "HEAD" /\ answer.status # 204
         /\ answer.status \in Statuses(c)

(* What a client is told is about its own request, whatever happens to the *)
(* others: a refusal of what it sent, the answer of the handler it asked   *)
(* for, or that this very handler failed.  The panic of one is nobody      *)
(* else's, although it happens with the mutex held that all of them need.  *)
(* (http.rs, Server::serve; surface.rs, lock)                              *)
AnswersAreTheirOwn ==
    \A c \in {c \in Conns : got[c] # Nothing} : Deserves(c, got[c])

(* Whoever sends a whole request and waits is answered, although others    *)
(* stall, stop reading, hold streams open or make a handler panic, for as  *)
(* long as the server serves; but a line that is not text is met with      *)
(* silence.  (http.rs, Server::serve and answer)                           *)
Legible(request) == \A i \in DOMAIN request : request[i].kind # "binary"
IsStart(request) ==
    /\ request # <<>> => request[1].kind = "request"
    /\ \A i \in 2..Len(request) : IsHeader(request[i])
    /\ Len(request) <= MaxHeaders + 1
WaitsFor(c) ==
    /\ client[c] = "here" /\ main = "serving"
    /\ stage[c] \in {"queued", "line", "headers", "body"}
    /\ Legible(asked[c]) /\ ~IsStart(asked[c])
    /\ sent[c] = Len(asked[c])
    /\ WellFormed(asked[c]) => sent[c] >= HeadEnd(asked[c]) + Bytes(asked[c])

WholeRequestsAreAnswered ==
    \A c \in Conns :
        WaitsFor(c) ~> (got[c] # Nothing \/ client[c] # "here" \/ main # "serving")

(* Told to stop, or left without a listener, the process ends: it waits    *)
(* for the runner, which hears of it, and for no client, whatever streams  *)
(* are open.  (http.rs, Server::serve; daemon.rs, review)                  *)
StoppingEndsTheProcess == (shutdown \/ main # "serving") ~> (main = "exited")
===============================================================================
