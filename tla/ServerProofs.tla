----------------------------- MODULE ServerProofs -----------------------------
(***************************************************************************)
(* No handler runs for half a request, and nobody is told what is not      *)
(* about its own request, for any number of connections, any requests of   *)
(* any length, any ceilings and any number of handlers that panic.         *)
(*                                                                         *)
(* The parser decides line by line what the properties say of the request  *)
(* as a whole.  So the invariant says of a thread that reads a head which  *)
(* part of the request it has seen and that the lines it keeps are that    *)
(* part; the lemmas, that the whole is decided once the line in hand is    *)
(* not a header.                                                           *)
(***************************************************************************)
EXTENDS Server, SequenceTheorems, WellFoundedInduction, TLAPS

-----------------------------------------------------------------------------
(* The first of some lines. *)

LEMMA LeastOfSome ==
    ASSUME NEW S \in SUBSET Nat, S # {}
    PROVE  Min(S) \in S /\ \A i \in S : Min(S) <= i
<1>1. PICK x \in S : \A y \in S : <<y, x>> \notin OpToRel(<, Nat)
  BY NatLessThanWellFounded, WFMin
<1>2. ASSUME NEW y \in S PROVE x <= y
  <2>1. <<y, x>> \notin {ss \in Nat \X Nat : ss[1] < ss[2]}
    BY <1>1 DEF OpToRel
  <2>2. <<y, x>> \in Nat \X Nat /\ <<y, x>>[1] = y /\ <<y, x>>[2] = x
    OBVIOUS
  <2>3. ~(y < x)
    BY <2>1, <2>2
  <2> QED
    BY <2>3
<1> QED
  BY <1>1, <1>2 DEF Min

(* SelectInSeq, for the line that ends a head.                             *)
LEMMA FirstEnd ==
    ASSUME NEW r \in Seq(Pieces)
    PROVE  /\ HeadEnd(r) \in Nat
           /\ HeadEnd(r) # 0 => /\ HeadEnd(r) \in 1..Len(r)
                               /\ r[HeadEnd(r)].kind = "end"
           /\ \A i \in 1..Len(r) :
                  r[i].kind = "end" => HeadEnd(r) # 0 /\ HeadEnd(r) <= i
<1> DEFINE S == {i \in 1..Len(r) : r[i].kind = "end"}
<1>1. HeadEnd(r) = IF S # {} THEN Min(S) ELSE 0
  BY DEF HeadEnd, SelectInSeq
<1>2. S \in SUBSET Nat
  OBVIOUS
<1>3. CASE S = {}
  BY <1>1, <1>3
<1>4. CASE S # {}
  <2>1. Min(S) \in S /\ \A i \in S : Min(S) <= i
    BY <1>2, <1>4, LeastOfSome
  <2>2. HeadEnd(r) = Min(S)
    BY <1>1, <1>4
  <2>3. HeadEnd(r) \in S /\ \A i \in S : HeadEnd(r) <= i
    BY <2>1, <2>2
  <2>4. HeadEnd(r) \in 1..Len(r) /\ r[HeadEnd(r)].kind = "end"
    BY <2>3
  <2>5. \A i \in 1..Len(r) : r[i].kind = "end" => HeadEnd(r) <= i
    BY <2>3
  <2> QED
    BY <2>4, <2>5
<1> QED
  BY <1>3, <1>4

(* And for the header that says how long the body is.                      *)
LEMMA FirstLength ==
    ASSUME NEW lines \in Seq(Pieces)
    PROVE  LengthAt(lines) = 0 \/ LengthAt(lines) \in 1..Len(lines)
<1> DEFINE S == {i \in 1..Len(lines) : lines[i].kind # "header"}
<1>1. LengthAt(lines) = IF S # {} THEN Min(S) ELSE 0
  BY DEF LengthAt, SelectInSeq
<1>2. S \in SUBSET Nat
  OBVIOUS
<1>3. CASE S = {}
  BY <1>1, <1>3
<1>4. CASE S # {}
  BY <1>1, <1>2, <1>4, LeastOfSome
<1> QED
  BY <1>3, <1>4

LEMMA KindsOfPieces ==
    ASSUME NEW p \in Pieces
    PROVE  /\ p.kind = "request" => p \in RequestLines
           /\ p.kind = "length" => p.bytes \in Nat
BY DEF Pieces, RequestLines, LengthLines, OtherPieces

LEMMA LengthIsNat ==
    ASSUME NEW lines \in Seq(Pieces), ~Garbled(lines)
    PROVE  LengthOf(lines) \in Nat
<1>1. CASE LengthAt(lines) = 0
  BY <1>1 DEF LengthOf
<1>2. CASE LengthAt(lines) # 0
  <2>1. LengthAt(lines) \in 1..Len(lines)
    BY <1>2, FirstLength
  <2>2. lines[LengthAt(lines)] \in Pieces
    BY <2>1
  <2> QED
    BY <1>2, <2>2, KindsOfPieces DEF LengthOf, Garbled
<1> QED
  BY <1>1, <1>2

-----------------------------------------------------------------------------
(* A head, read line by line. *)

(* The first n pieces of r are a request line and headers.                 *)
Begins(r, n) ==
    /\ n \in 1..Len(r)
    /\ r[1].kind = "request"
    /\ \A i \in 2..n : IsHeader(r[i])

LEMMA TheEndIsAhead ==
    ASSUME NEW r \in Seq(Pieces), NEW n, Begins(r, n), HeadEnd(r) # 0
    PROVE  HeadEnd(r) \in (n + 1)..Len(r) /\ r[HeadEnd(r)].kind = "end"
<1>1. HeadEnd(r) \in 1..Len(r) /\ r[HeadEnd(r)].kind = "end"
  BY FirstEnd
<1>2. \A i \in 1..n : r[i].kind # "end"
  BY DEF Begins, IsHeader
<1> QED
  BY <1>1, <1>2 DEF Begins

(* The lines of the head, one by one.                                      *)
LEMMA LinesOfHead ==
    ASSUME NEW r \in Seq(Pieces), HeadEnd(r) # 0, HeadEnd(r) # 1
    PROVE  /\ HeadLines(r) \in Seq(Pieces)
           /\ Len(HeadLines(r)) = HeadEnd(r) - 2
           /\ \A i \in 2..(HeadEnd(r) - 1) :
                  i - 1 \in DOMAIN HeadLines(r) /\ HeadLines(r)[i - 1] = r[i]
           /\ \A i \in DOMAIN HeadLines(r) :
                  i + 1 \in 2..(HeadEnd(r) - 1) /\ HeadLines(r)[i] = r[i + 1]
<1> DEFINE e == HeadEnd(r)
<1>1. e \in 2..Len(r)
  BY FirstEnd
<1>2. \A i \in 2..(e - 1) : r[i] \in Pieces
  BY <1>1
<1>3. /\ HeadLines(r) \in Seq(Pieces)
      /\ Len(HeadLines(r)) = IF 2 <= e - 1 THEN (e - 1) - 2 + 1 ELSE 0
      /\ \A i \in 1 .. (e - 1) - 2 + 1 : HeadLines(r)[i] = r[2 + i - 1]
  BY <1>1, <1>2, SubSeqProperties DEF HeadLines
<1>4. Len(HeadLines(r)) = e - 2
  BY <1>1, <1>3
<1>5. DOMAIN HeadLines(r) = 1..(e - 2)
  BY <1>3, <1>4
<1>6. \A i \in 1..(e - 2) : HeadLines(r)[i] = r[i + 1]
  BY <1>1, <1>3
<1> HIDE DEF e
<1>7. \A i \in 2..(e - 1) : i - 1 \in 1..(e - 2) /\ HeadLines(r)[i - 1] = r[i]
  BY <1>1, <1>6
<1> QED
  BY <1>1, <1>3, <1>4, <1>5, <1>6, <1>7 DEF e

(* A line that is neither a header nor the end: there is no such request.  *)
LEMMA NoSuchLine ==
    ASSUME NEW r \in Seq(Pieces), NEW n, Begins(r, n), n < Len(r),
           r[n + 1].kind # "end", ~IsHeader(r[n + 1])
    PROVE  ~WellFormed(r)
<1> SUFFICES ASSUME WellFormed(r) PROVE FALSE
  OBVIOUS
<1>1. HeadEnd(r) \in (n + 1)..Len(r) /\ r[HeadEnd(r)].kind = "end"
  BY TheEndIsAhead DEF WellFormed
<1>2. n + 1 \in 2..(HeadEnd(r) - 1)
  BY <1>1 DEF Begins
<1> QED
  BY <1>1, <1>2, LinesOfHead DEF WellFormed, Begins

(* A header too many: likewise.                                            *)
LEMMA TooManyLines ==
    ASSUME NEW r \in Seq(Pieces), NEW n, Begins(r, n), n < Len(r),
           r[n + 1].kind # "end", MaxHeaders \in Nat, n - 1 >= MaxHeaders
    PROVE  ~WellFormed(r)
<1> SUFFICES ASSUME WellFormed(r) PROVE FALSE
  OBVIOUS
<1>1. HeadEnd(r) \in (n + 1)..Len(r) /\ r[HeadEnd(r)].kind = "end"
  BY TheEndIsAhead DEF WellFormed
<1>2. HeadEnd(r) >= n + 2 /\ HeadEnd(r) # 1 /\ HeadEnd(r) # 0
  BY <1>1 DEF Begins
<1>3. Len(HeadLines(r)) = HeadEnd(r) - 2
  BY <1>2, LinesOfHead
<1> QED
  BY <1>1, <1>2, <1>3 DEF WellFormed, Begins

(* The empty line: the head is what has been read.                         *)
LEMMA HeadIsRead ==
    ASSUME NEW r \in Seq(Pieces), NEW n, Begins(r, n), n < Len(r),
           r[n + 1].kind = "end", MaxHeaders \in Nat, n - 1 <= MaxHeaders
    PROVE  /\ HeadEnd(r) = n + 1
           /\ HeadLines(r) = SubSeq(r, 2, n)
           /\ HeadLines(r) \in Seq(Pieces)
           /\ WellFormed(r) <=> ~Garbled(HeadLines(r))
<1>1. n + 1 \in 1..Len(r)
  BY DEF Begins
<1>2. HeadEnd(r) # 0 /\ HeadEnd(r) <= n + 1
  BY <1>1, FirstEnd
<1>3. HeadEnd(r) = n + 1
  BY <1>1, <1>2, TheEndIsAhead
<1>4. HeadLines(r) = SubSeq(r, 2, n)
  <2>1. (n + 1) - 1 = n
    BY DEF Begins
  <2> QED
    BY <1>3, <2>1 DEF HeadLines
<1>5. HeadEnd(r) # 1 /\ Len(HeadLines(r)) = n - 1 /\ HeadLines(r) \in Seq(Pieces)
  BY <1>1, <1>3, LinesOfHead DEF Begins
<1>6. \A i \in DOMAIN HeadLines(r) : IsHeader(HeadLines(r)[i])
  BY <1>2, <1>3, <1>5, LinesOfHead DEF Begins
<1> QED
  BY <1>2, <1>3, <1>4, <1>5, <1>6 DEF WellFormed, Begins

(* The lines that are kept grow as the head is read.                       *)
LEMMA OneMoreLine ==
    ASSUME NEW r \in Seq(Pieces), NEW n \in 1..Len(r), n < Len(r)
    PROVE  /\ Append(SubSeq(r, 2, n), r[n + 1]) = SubSeq(r, 2, n + 1)
           /\ Len(SubSeq(r, 2, n)) = n - 1
           /\ SubSeq(r, 2, n) \in Seq(Pieces)
<1>1. \A i \in 2..n : r[i] \in Pieces
  OBVIOUS
<1>2. SubSeq(r, 2, n) \in Seq(Pieces)
  BY <1>1, SubSeqProperties
<1>3. Len(SubSeq(r, 2, n)) = n - 1
  BY <1>1, SubSeqProperties
<1>4. SubSeq(r, 2, n + 1) = SubSeq(r, 2, n) \o <<r[n + 1]>>
  <2>1. 2 \in 1..Len(r) /\ n + 1 \in 2..Len(r) /\ (n + 1) - 1 = n
    OBVIOUS
  <2> QED
    BY <2>1, SubSeqRecursiveSecond
<1>5. Append(SubSeq(r, 2, n), r[n + 1]) = SubSeq(r, 2, n) \o <<r[n + 1]>>
  <2>1. r[n + 1] \in Pieces
    OBVIOUS
  <2> QED
    BY <1>2, <2>1, AppendIsConcat
<1> QED
  BY <1>2, <1>3, <1>4, <1>5

-----------------------------------------------------------------------------
(* The invariant. *)

(* What the thread of c has made of the pieces it has read.                *)
Seen(c) ==
    /\ stage[c] \in {"queued", "line"} => read[c] = 0 /\ headers[c] = <<>>
    /\ stage[c] = "headers" => /\ Begins(asked[c], read[c])
                              /\ headers[c] = SubSeq(asked[c], 2, read[c])
                              /\ read[c] - 1 <= MaxHeaders
    /\ stage[c] \in Handling \cup {"body"} =>
          /\ WellFormed(asked[c])
          /\ Bytes(asked[c]) \in 0..MaxBody
          /\ read[c] + left[c] = HeadEnd(asked[c]) + Bytes(asked[c])
    /\ stage[c] \in Handling => left[c] = 0

(* The handler is the one that was asked for, and has done nothing yet.    *)
Routed(c) ==
    /\ stage[c] \in Handling =>
          /\ Allows(Route(c), Verb(c))
          /\ Route(c) = CASE stage[c] \in {"page", "locked"} -> "page"
                          [] stage[c] \in {"events", "streaming"} -> "events"
                          [] stage[c] = "write" -> "write"
    /\ stage[c] \notin {"streaming", "replying", "closed"} => c \notin panicked /\ c \notin wrote

(* What it is told, and what it is about to be told.                       *)
Told(c) ==
    /\ got[c] # Nothing => stage[c] \in {"streaming", "closed"} /\ Deserves(c, got[c])
    /\ stage[c] = "replying" /\ client[c] # "left" => Deserves(c, reply[c])

Served(c) == Seen(c) /\ Routed(c) /\ Told(c)

ServerInv == TypeOK /\ \A c \in Conns : Served(c)

LEMMA ServerStarts ==
    ASSUME Init
    PROVE  ServerInv
<1>1. TypeOK
  <2>1. asked \in [Conns -> Seq(Pieces)]
    BY ServerAssumption DEF Init
  <2>2. got \in [Conns -> Replies] /\ reply \in [Conns -> Replies]
    BY DEF Init, Replies, Nothing
  <2>3. headers \in [Conns -> Seq(Pieces)]
    BY DEF Init
  <2>4. \A c \in Conns : read[c] <= sent[c] /\ sent[c] <= Len(asked[c])
    BY <2>1 DEF Init
  <2> QED
    BY <2>1, <2>2, <2>3, <2>4 DEF Init, TypeOK
<1>2. ASSUME NEW c \in Conns PROVE Served(c)
  BY <1>2 DEF Init, Served, Seen, Routed, Told, Handling
<1> QED
  BY <1>1, <1>2 DEF ServerInv

(* What an action of one connection leaves alone of another.               *)
Still(d) ==
    /\ client'[d] = client[d] /\ got'[d] = got[d] /\ stage'[d] = stage[d]
    /\ read'[d] = read[d] /\ headers'[d] = headers[d] /\ left'[d] = left[d]
    /\ reply'[d] = reply[d]
    /\ d \in panicked' <=> d \in panicked
    /\ d \in wrote' <=> d \in wrote

Connection(c) == Send(c) \/ Turn(c) \/ Thread(c) \/ Panic(c) \/ EndStream(c)

LEMMA StillServed ==
    ASSUME ServerInv, NEW d \in Conns, asked' = asked, Still(d)
    PROVE  Served(d)'
<1>1. Served(d)
  BY DEF ServerInv
<1>2. Seen(d)'
  BY <1>1 DEF Served, Seen, Still
<1>3. Routed(d)'
  BY <1>1 DEF Served, Routed, Route, Verb, Still
<1>4. \A r : Deserves(d, r) <=> Deserves(d, r)'
  BY DEF Deserves, Statuses, Missing, Route, Verb, Still
<1>5. Told(d)'
  BY <1>1, <1>4 DEF Served, Told, Still
<1> QED
  BY <1>2, <1>3, <1>5 DEF Served

LEMMA OthersAreStill ==
    ASSUME TypeOK, NEW c \in Conns, NEW d \in Conns, d # c, Connection(c)
    PROVE  Still(d)
<1> USE DEF TypeOK, Still
<1>1. CASE Send(c) \/ Turn(c)
  BY <1>1 DEF Send, Turn, parser, effects
<1>2. CASE Accept(c) \/ ReadRequestLine(c) \/ ReadHeader(c) \/ ReadEnd(c) \/ ReadByte(c)
  BY <1>2 DEF Accept, ReadRequestLine, ReadHeader, ReadEnd, ReadByte, GoesTo, Takes,
     parser, clients, effects
<1>3. CASE RefuseRequestLine(c) \/ RefuseHeader(c) \/ RefuseLength(c)
  BY <1>3 DEF RefuseRequestLine, RefuseHeader, RefuseLength, Refuse, Answers, GoesTo, Takes,
     clients, effects
<1>4. CASE Gone(c) \/ Reply(c) \/ OpenStream(c)
  BY <1>4 DEF Gone, Reply, OpenStream, Closes, GoesTo, parser, clients, effects
<1>5. CASE Torn(c) \/ Dispatch(c) \/ Lock(c) \/ Draw(c)
  BY <1>5 DEF Torn, Dispatch, Lock, Draw, Answers, GoesTo, parser, clients, effects
<1>6. CASE Write(c)
  BY <1>6 DEF Write, Answers, GoesTo, parser, clients
<1>7. CASE Panic(c) \/ EndStream(c)
  BY <1>7 DEF Panic, EndStream, Answers, Closes, GoesTo, parser, clients
<1> QED
  BY <1>1, <1>2, <1>3, <1>4, <1>5, <1>6, <1>7 DEF Connection, Thread

-----------------------------------------------------------------------------
(* Types, action by action. *)

LEMMA PieceInHand ==
    ASSUME TypeOK, NEW c \in Conns, Pending(c)
    PROVE  /\ asked[c] \in Seq(Pieces)
           /\ read[c] \in Nat /\ read[c] + 1 \in 1..Len(asked[c])
           /\ Piece(c) = asked[c][read[c] + 1] /\ Piece(c) \in Pieces
           /\ read[c] + 1 <= sent[c]
<1>1. asked[c] \in Seq(Pieces) /\ read[c] \in Nat /\ sent[c] \in Nat
  BY DEF TypeOK
<1>2. read[c] < sent[c] /\ sent[c] <= Len(asked[c])
  BY DEF TypeOK, Pending
<1>3. read[c] + 1 \in 1..Len(asked[c]) /\ read[c] + 1 <= sent[c]
  BY <1>1, <1>2
<1> QED
  BY <1>1, <1>3 DEF Piece

(* A thread counts what it takes, and counts from the beginning when it ends. *)
LEMMA TakesKeeps ==
    ASSUME TypeOK, NEW c \in Conns, Pending(c), Takes(c), asked' = asked, sent' = sent
    PROVE  /\ read' \in [Conns -> Nat]
           /\ \A d \in Conns : read'[d] <= sent'[d] /\ sent'[d] <= Len(asked'[d])
BY PieceInHand DEF TypeOK, Takes

LEMMA AnswersKeeps ==
    ASSUME TypeOK, NEW c \in Conns, NEW r \in Replies, Answers(c, r)
    PROVE  /\ reply' \in [Conns -> Replies]
           /\ stage' \in [Conns -> {"queued", "line", "headers", "body", "replying", "closed"}
                                   \cup Handling]
BY DEF TypeOK, Answers, GoesTo

LEMMA ClosesKeeps ==
    ASSUME TypeOK, NEW c \in Conns, Closes(c), asked' = asked, sent' = sent
    PROVE  /\ reply' \in [Conns -> Replies] /\ headers' \in [Conns -> Seq(Pieces)]
           /\ left' \in [Conns -> Nat] /\ read' \in [Conns -> Nat]
           /\ stage' \in [Conns -> {"queued", "line", "headers", "body", "replying", "closed"}
                                   \cup Handling]
           /\ \A d \in Conns : read'[d] <= sent'[d] /\ sent'[d] <= Len(asked'[d])
<1>1. Nothing \in Replies
  BY DEF Nothing, Replies
<1>2. reply' \in [Conns -> Replies]
  BY <1>1 DEF TypeOK, Closes
<1>3. headers' \in [Conns -> Seq(Pieces)]
  BY DEF TypeOK, Closes
<1>4. left' \in [Conns -> Nat] /\ read' \in [Conns -> Nat]
  BY DEF TypeOK, Closes
<1>5. \A d \in Conns : read'[d] <= sent'[d] /\ sent'[d] <= Len(asked'[d])
  BY DEF TypeOK, Closes
<1> QED
  BY <1>2, <1>3, <1>4, <1>5 DEF TypeOK, Closes, GoesTo

LEMMA RepliesAreReplies ==
    ASSUME NEW c, NEW n \in Nat
    PROVE  Says(n) \in Replies /\ Answer(c, n) \in Replies
BY DEF Says, Answer, Replies

LEMMA ConnectionTypes ==
    ASSUME ServerInv, NEW c \in Conns, Connection(c)
    PROVE  TypeOK'
<1>0. TypeOK /\ Served(c)
  BY DEF ServerInv
<1>1. ASSUME Send(c) PROVE TypeOK'
  <2>1. sent' \in [Conns -> Nat]
    BY <1>0, <1>1 DEF TypeOK, Send
  <2>2. \A d \in Conns : read'[d] <= sent'[d] /\ sent'[d] <= Len(asked'[d])
    BY <1>0, <1>1 DEF TypeOK, Send, parser
  <2> QED
    BY <1>0, <1>1, <2>1, <2>2 DEF TypeOK, Send, parser, mutex, effects, process
<1>2. ASSUME Turn(c) PROVE TypeOK'
  BY <1>0, <1>2 DEF TypeOK, Turn, parser, mutex, effects, process
<1>3. ASSUME Accept(c) \/ Lock(c) PROVE TypeOK'
  BY <1>0, <1>3 DEF TypeOK, Accept, Lock, GoesTo, Handling, clients, parser, mutex, effects, process
<1>4. ASSUME ReadRequestLine(c) \/ ReadHeader(c) \/ ReadEnd(c) \/ ReadByte(c) PROVE TypeOK'
  <2>1. Pending(c) /\ Takes(c) /\ asked' = asked /\ sent' = sent
    BY <1>4 DEF ReadRequestLine, ReadHeader, ReadEnd, AtEnd, ReadByte, clients
  <2>2. /\ read' \in [Conns -> Nat]
        /\ \A d \in Conns : read'[d] <= sent'[d] /\ sent'[d] <= Len(asked'[d])
    BY <1>0, <2>1, TakesKeeps
  <2>3. headers' \in [Conns -> Seq(Pieces)]
    <3>1. CASE ReadHeader(c)
      <4>1. Append(headers[c], Piece(c)) \in Seq(Pieces)
        BY <1>0, <2>1, PieceInHand, AppendProperties DEF TypeOK
      <4> QED
        BY <1>0, <3>1, <4>1 DEF TypeOK, ReadHeader
    <3> QED
      BY <1>0, <1>4, <3>1 DEF TypeOK, ReadRequestLine, ReadEnd, ReadByte
  <2>4. left' \in [Conns -> Nat]
    <3>1. CASE ReadEnd(c)
      <4>1. headers[c] \in Seq(Pieces)
        BY <1>0 DEF TypeOK
      <4>2. LengthOf(headers[c]) \in Nat
        BY <3>1, <4>1, LengthIsNat DEF ReadEnd
      <4> QED
        BY <1>0, <3>1, <4>2 DEF TypeOK, ReadEnd
    <3>2. CASE ReadByte(c)
      BY <1>0, <3>2 DEF TypeOK, ReadByte
    <3> QED
      BY <1>0, <1>4, <3>1, <3>2 DEF TypeOK, ReadRequestLine, ReadHeader
  <2> QED
    BY <1>0, <1>4, <2>1, <2>2, <2>3, <2>4 DEF TypeOK, ReadRequestLine, ReadHeader, ReadEnd,
       ReadByte, GoesTo, clients, mutex, effects, process
<1>5. ASSUME RefuseRequestLine(c) \/ RefuseHeader(c) \/ RefuseLength(c) PROVE TypeOK'
  <2>1. Malformed \in Replies /\ TooLarge \in Replies
    BY RepliesAreReplies DEF Malformed, TooLarge
  <2>2. Pending(c) /\ \E r \in Replies : Refuse(c, r)
    BY <1>5, <2>1 DEF RefuseRequestLine, RefuseHeader, RefuseLength, AtEnd
  <2>3. PICK r \in Replies : Refuse(c, r)
    BY <2>2
  <2>4. Takes(c) /\ Answers(c, r) /\ UNCHANGED <<clients, got, headers, left, mutex, effects, process>>
    BY <2>3 DEF Refuse
  <2>5. asked' = asked /\ sent' = sent
    BY <2>4 DEF clients
  <2> QED
    BY <1>0, <2>2, <2>4, <2>5, TakesKeeps, AnswersKeeps DEF TypeOK, clients, mutex, effects, process
<1>6. ASSUME Gone(c) \/ Reply(c) \/ EndStream(c) PROVE TypeOK'
  <2>1. Closes(c) /\ asked' = asked /\ sent' = sent /\ client' = client
    BY <1>6 DEF Gone, Reply, EndStream, clients
  <2>2. got' \in [Conns -> Replies]
    BY <1>0, <1>6 DEF TypeOK, Gone, Reply, EndStream
  <2>3. panicked' \subseteq Conns
    BY <1>0, <1>6 DEF TypeOK, Gone, Reply, EndStream, effects
  <2>4. UNCHANGED <<mutex, wrote, process>>
    BY <1>6 DEF Gone, Reply, EndStream, effects
  <2> QED
    BY <1>0, <2>1, <2>2, <2>3, <2>4, ClosesKeeps DEF TypeOK, mutex, process
<1>7. ASSUME OpenStream(c) PROVE TypeOK'
  <2>1. got' \in [Conns -> Replies]
    BY <1>0, <1>7, RepliesAreReplies DEF TypeOK, OpenStream, EventStream
  <2> QED
    BY <1>0, <1>7, <2>1 DEF TypeOK, OpenStream, GoesTo, Handling, clients, parser, mutex, effects, process
<1>8. ASSUME Torn(c) \/ Draw(c) \/ Write(c) \/ Panic(c) PROVE TypeOK'
  <2>1. Malformed \in Replies /\ \A n \in Nat : Answer(c, n) \in Replies
    BY RepliesAreReplies DEF Malformed
  <2>2. \E r \in Replies : Answers(c, r)
    BY <1>8, <2>1 DEF Torn, Draw, Write, Panic
  <2>3. /\ reply' \in [Conns -> Replies]
        /\ stage' \in [Conns -> {"queued", "line", "headers", "body", "replying", "closed"}
                                \cup Handling]
    BY <1>0, <2>2, AnswersKeeps
  <2>4. UNCHANGED <<clients, got, parser, process>>
    BY <1>8 DEF Torn, Draw, Write, Panic
  <2>5. holder' \in Conns \cup {Nobody} /\ poisoned' \in BOOLEAN
    BY <1>0, <1>8 DEF TypeOK, Torn, Draw, Write, Panic, mutex
  <2>6. panicked' \subseteq Conns /\ wrote' \subseteq Conns
    BY <1>0, <1>8 DEF TypeOK, Torn, Draw, Write, Panic, effects
  <2> QED
    BY <1>0, <2>3, <2>4, <2>5, <2>6 DEF TypeOK, clients, parser, process
<1>9. ASSUME Dispatch(c) PROVE TypeOK'
  <2>1. Answer(c, 404) \in Replies /\ Answer(c, 405) \in Replies
    BY RepliesAreReplies
  <2>2. \/ \E r \in Replies : Answers(c, r)
        \/ GoesTo(c, Route(c)) /\ reply' = reply /\ Route(c) # "nowhere"
    BY <1>9, <2>1 DEF Dispatch, Missing
  <2>3. CASE \E r \in Replies : Answers(c, r)
    BY <1>0, <1>9, <2>3, AnswersKeeps DEF TypeOK, Dispatch, clients, parser, mutex, effects, process
  <2>4. CASE GoesTo(c, Route(c)) /\ reply' = reply /\ Route(c) # "nowhere"
    <3>1. Route(c) \in {"page", "events", "write"}
      <4>1. WellFormed(asked[c]) /\ asked[c] \in Seq(Pieces)
        BY <1>0, <1>9 DEF Dispatch, Served, Seen, TypeOK
      <4>2. asked[c][1] \in RequestLines
        BY <4>1, FirstEnd, KindsOfPieces DEF WellFormed
      <4> QED
        BY <2>4, <4>2 DEF Route, RequestLines
    <3>2. stage' \in [Conns -> {"queued", "line", "headers", "body", "replying", "closed"}
                                \cup Handling]
      BY <1>0, <2>4, <3>1 DEF TypeOK, GoesTo, Handling
    <3> QED
      BY <1>0, <1>9, <2>4, <3>2 DEF TypeOK, Dispatch, clients, parser, mutex, effects, process
  <2> QED
    BY <2>2, <2>3, <2>4
<1> QED
  BY <1>1, <1>2, <1>3, <1>4, <1>5, <1>6, <1>7, <1>8, <1>9 DEF Connection, Thread

-----------------------------------------------------------------------------
(* What a connection is told, action by action. *)

LEMMA RepliesServed ==
    ASSUME NEW c \in Conns, stage'[c] = "replying", got'[c] = Nothing,
           (client[c] # "left" => Deserves(c, reply[c]))'
    PROVE  Served(c)'
BY DEF Served, Seen, Routed, Told, Handling

LEMMA ClosedServed ==
    ASSUME NEW c \in Conns, stage'[c] = "closed",
           (got[c] # Nothing => Deserves(c, got[c]))'
    PROVE  Served(c)'
BY DEF Served, Seen, Routed, Told, Handling

(* Before there is an answer nobody has been told anything.                *)
LEMMA NothingYet ==
    ASSUME ServerInv, NEW c \in Conns, stage[c] \notin {"streaming", "closed"}
    PROVE  got[c] = Nothing
BY DEF ServerInv, Served, Told

LEMMA RefusedServed ==
    ASSUME ServerInv, NEW c \in Conns, Reading(c), asked' = asked, got' = got,
           NEW r, Answers(c, r),
           \/ r = Malformed /\ (client'[c] = "left" \/ ~WellFormed(asked[c]))
           \/ r = TooLarge /\ WellFormed(asked[c]) /\ Bytes(asked[c]) > MaxBody
    PROVE  Served(c)'
<1>1. stage'[c] = "replying" /\ reply'[c] = r
  BY DEF ServerInv, TypeOK, Answers, GoesTo
<1>2. got'[c] = Nothing
  BY NothingYet DEF Reading
<1>3. (client[c] # "left" => Deserves(c, reply[c]))'
  BY <1>1 DEF Deserves
<1> QED
  BY <1>1, <1>2, <1>3, RepliesServed

LEMMA AnswerServed ==
    ASSUME ServerInv, NEW c \in Conns, asked' = asked, got' = got,
           stage[c] \in Handling \cup {"body"}, stage[c] # "streaming",
           NEW n \in Nat, Answers(c, Answer(c, n)), (n \in Statuses(c))'
    PROVE  Served(c)'
<1>1. stage'[c] = "replying" /\ reply'[c] = Answer(c, n)
  BY DEF ServerInv, TypeOK, Answers, GoesTo
<1>2. got'[c] = Nothing
  BY NothingYet DEF Handling
<1>3. WellFormed(asked[c]) /\ ~(Bytes(asked[c]) > MaxBody)
  BY ServerAssumption DEF ServerInv, Served, Seen
<1>4. /\ Answer(c, n).status = n
      /\ Answer(c, n).body <=> Verb(c) # "HEAD" /\ n # 204
  BY DEF Answer
<1>5. Deserves(c, reply[c])'
  BY <1>1, <1>3, <1>4 DEF Deserves, Verb
<1> QED
  BY <1>1, <1>2, <1>5, RepliesServed

LEMMA ReadingServed ==
    ASSUME ServerInv, NEW c \in Conns,
           \/ Accept(c) \/ ReadRequestLine(c) \/ ReadHeader(c) \/ ReadEnd(c) \/ ReadByte(c)
    PROVE  Served(c)'
<1>0. TypeOK /\ Served(c)
  BY DEF ServerInv
<1>1. /\ asked' = asked /\ got'[c] = Nothing
      /\ panicked' = panicked /\ wrote' = wrote
      /\ c \notin panicked /\ c \notin wrote
  BY <1>0, NothingYet DEF Accept, ReadRequestLine, ReadHeader, ReadEnd, AtEnd, ReadByte, Reading,
     Served, Routed, clients, effects
<1>2. MaxHeaders \in Nat /\ MaxBody \in Nat
  BY ServerAssumption
<1>3. CASE Accept(c)
  <2>1. stage'[c] = "line" /\ read'[c] = 0 /\ headers'[c] = <<>>
    BY <1>0, <1>3 DEF Accept, GoesTo, TypeOK, Served, Seen, parser
  <2> QED
    BY <1>1, <2>1 DEF Served, Seen, Routed, Told, Handling
<1>4. CASE ReadRequestLine(c)
  <2>1. /\ stage'[c] = "headers" /\ read'[c] = 1 /\ headers'[c] = <<>>
        /\ 1 \in 1..Len(asked[c]) /\ asked[c][1].kind = "request"
    BY <1>0, <1>4, PieceInHand DEF ReadRequestLine, GoesTo, Takes, TypeOK, Served, Seen
  <2>2. SubSeq(asked[c], 2, 1) = <<>>
    BY SubSeqEmpty
  <2>3. Begins(asked[c], 1)
    BY <2>1 DEF Begins
  <2> QED
    BY <1>1, <1>2, <2>1, <2>2, <2>3 DEF Served, Seen, Routed, Told, Handling
<1>5. CASE ReadHeader(c)
  <2> DEFINE r == asked[c]
             n == read[c]
  <2>1. /\ stage[c] = "headers" /\ stage'[c] = "headers" /\ read'[c] = n + 1
        /\ headers'[c] = Append(headers[c], r[n + 1])
        /\ IsHeader(r[n + 1]) /\ Len(headers[c]) < MaxHeaders
        /\ r \in Seq(Pieces) /\ n + 1 \in 1..Len(r) /\ n \in Nat
    BY <1>0, <1>5, PieceInHand DEF ReadHeader, Takes, TypeOK
  <2>2. Begins(r, n) /\ headers[c] = SubSeq(r, 2, n)
    BY <1>0, <2>1 DEF Served, Seen
  <2>3. n \in 1..Len(r) /\ n < Len(r)
    BY <2>1, <2>2 DEF Begins
  <2>4. /\ headers'[c] = SubSeq(r, 2, n + 1)
        /\ Len(headers[c]) = n - 1
    BY <2>1, <2>2, <2>3, OneMoreLine
  <2>5. Begins(r, n + 1)
    BY <2>1, <2>2, <2>3 DEF Begins
  <2>6. (n + 1) - 1 <= MaxHeaders
    BY <1>2, <2>1, <2>4
  <2> QED
    BY <1>1, <2>1, <2>4, <2>5, <2>6 DEF Served, Seen, Routed, Told, Handling
<1>6. CASE ReadEnd(c)
  <2> DEFINE r == asked[c]
             n == read[c]
  <2>1. /\ stage[c] = "headers" /\ stage'[c] = "body" /\ read'[c] = n + 1
        /\ left'[c] = LengthOf(headers[c]) /\ ~Garbled(headers[c])
        /\ LengthOf(headers[c]) <= MaxBody
        /\ r[n + 1].kind = "end"
        /\ r \in Seq(Pieces) /\ n + 1 \in 1..Len(r) /\ n \in Nat
    BY <1>0, <1>6, PieceInHand DEF ReadEnd, AtEnd, GoesTo, Takes, TypeOK
  <2>2. Begins(r, n) /\ headers[c] = SubSeq(r, 2, n) /\ n - 1 <= MaxHeaders
    BY <1>0, <2>1 DEF Served, Seen
  <2>3. n < Len(r)
    BY <2>1
  <2>4. /\ HeadEnd(r) = n + 1 /\ HeadLines(r) = headers[c]
        /\ HeadLines(r) \in Seq(Pieces)
        /\ WellFormed(r)
    BY <1>2, <2>1, <2>2, <2>3, HeadIsRead
  <2>5. Bytes(r) = LengthOf(headers[c]) /\ Bytes(r) \in 0..MaxBody
    BY <1>2, <2>1, <2>4, LengthIsNat DEF Bytes
  <2> QED
    BY <1>1, <2>1, <2>4, <2>5 DEF Served, Seen, Routed, Told, Handling
<1>7. CASE ReadByte(c)
  <2>1. /\ stage[c] = "body" /\ stage'[c] = "body"
        /\ read'[c] = read[c] + 1 /\ left'[c] = left[c] - 1
        /\ read[c] \in Nat /\ left[c] \in Nat
    BY <1>0, <1>7 DEF ReadByte, Takes, TypeOK
  <2>2. /\ WellFormed(asked[c]) /\ Bytes(asked[c]) \in 0..MaxBody
        /\ read'[c] + left'[c] = HeadEnd(asked[c]) + Bytes(asked[c])
    BY <1>0, <2>1 DEF Served, Seen
  <2> QED
    BY <1>1, <2>1, <2>2 DEF Served, Seen, Routed, Told, Handling
<1> QED
  BY <1>3, <1>4, <1>5, <1>6, <1>7

LEMMA RefusingServed ==
    ASSUME ServerInv, NEW c \in Conns,
           RefuseRequestLine(c) \/ RefuseHeader(c) \/ RefuseLength(c) \/ Torn(c)
    PROVE  Served(c)'
<1> DEFINE r == asked[c]
           n == read[c]
<1>0. TypeOK /\ Served(c) /\ MaxHeaders \in Nat
  BY ServerAssumption DEF ServerInv
<1>1. Reading(c) /\ asked' = asked /\ got' = got /\ client' = client
  BY DEF RefuseRequestLine, RefuseHeader, RefuseLength, AtEnd, Torn, Refuse, clients
<1>2. CASE RefuseRequestLine(c)
  <2>1. Answers(c, Malformed) /\ r[1].kind # "request"
    BY <1>0, <1>2, PieceInHand DEF RefuseRequestLine, Refuse, Served, Seen
  <2> QED
    BY <1>1, <2>1, RefusedServed DEF WellFormed
<1>3. CASE Torn(c)
  BY <1>1, <1>3, RefusedServed DEF Torn
<1>4. CASE RefuseHeader(c) \/ RefuseLength(c)
  <2>1. /\ stage[c] = "headers" /\ Piece(c) = r[n + 1]
        /\ r \in Seq(Pieces) /\ n + 1 \in 1..Len(r) /\ n \in Nat
    BY <1>0, <1>4, PieceInHand DEF RefuseHeader, RefuseLength, AtEnd
  <2>2. Begins(r, n) /\ headers[c] = SubSeq(r, 2, n) /\ n - 1 <= MaxHeaders
    BY <1>0, <2>1 DEF Served, Seen
  <2>3. n \in 1..Len(r) /\ n < Len(r)
    BY <2>1, <2>2 DEF Begins
  <2>4. CASE RefuseHeader(c)
    <3>1. Answers(c, Malformed) /\ r[n + 1].kind # "end"
      BY <2>1, <2>4 DEF RefuseHeader, Refuse
    <3>2. CASE ~IsHeader(r[n + 1])
      BY <1>1, <2>1, <2>2, <2>3, <3>1, <3>2, NoSuchLine, RefusedServed
    <3>3. CASE IsHeader(r[n + 1])
      <4>1. Len(headers[c]) >= MaxHeaders
        BY <2>1, <2>4, <3>3 DEF RefuseHeader
      <4>2. n - 1 >= MaxHeaders
        BY <2>1, <2>2, <2>3, <4>1, OneMoreLine
      <4>3. ~WellFormed(r)
        BY <1>0, <2>1, <2>2, <2>3, <3>1, <4>2, TooManyLines
      <4> QED
        BY <1>1, <3>1, <4>3, RefusedServed
    <3> QED
      BY <3>2, <3>3
  <2>5. CASE RefuseLength(c)
    <3>1. r[n + 1].kind = "end"
      BY <2>1, <2>5 DEF RefuseLength, AtEnd
    <3>2. HeadLines(r) = headers[c] /\ (WellFormed(r) <=> ~Garbled(headers[c]))
      <4>1. HeadLines(r) = headers[c]
        BY <1>0, <2>1, <2>2, <2>3, <3>1, HeadIsRead
      <4>2. WellFormed(r) <=> ~Garbled(HeadLines(r))
        BY <1>0, <2>1, <2>2, <2>3, <3>1, HeadIsRead, Zenon
      <4> QED
        BY <4>1, <4>2
    <3>3. CASE Garbled(headers[c])
      BY <1>1, <2>5, <3>2, <3>3, RefusedServed DEF RefuseLength, Refuse
    <3>4. CASE ~Garbled(headers[c])
      BY <1>1, <2>5, <3>2, <3>4, RefusedServed DEF RefuseLength, Refuse, Bytes
    <3> QED
      BY <3>3, <3>4
  <2> QED
    BY <1>4, <2>4, <2>5
<1> QED
  BY <1>2, <1>3, <1>4

LEMMA HandlingServed ==
    ASSUME ServerInv, NEW c \in Conns, Dispatch(c) \/ Lock(c) \/ Draw(c) \/ Write(c) \/ Panic(c)
    PROVE  Served(c)'
<1>0. TypeOK /\ Served(c)
  BY DEF ServerInv
<1>1. asked' = asked /\ got' = got /\ client' = client /\ read' = read /\ left' = left
  BY DEF Dispatch, Lock, Draw, Write, Panic, clients, parser
<1>2. CASE Dispatch(c)
  <2>1. stage[c] = "body" /\ left[c] = 0 /\ panicked' = panicked /\ wrote' = wrote
    BY <1>2 DEF Dispatch, effects
  <2>2. c \notin panicked /\ c \notin wrote /\ got[c] = Nothing
    BY <1>0, <2>1, NothingYet DEF Served, Routed
  <2>3. /\ Route(c) = asked[c][1].route /\ Verb(c) = asked[c][1].verb
        /\ Route(c)' = Route(c) /\ Verb(c)' = Verb(c)
    BY <1>1 DEF Route, Verb
  <2>4. CASE Route(c) = "nowhere"
    <3>1. Answers(c, Answer(c, 404))
      BY <1>2, <2>4 DEF Dispatch, Missing
    <3>2. (404 \in Statuses(c))'
      BY <2>3, <2>4 DEF Statuses, Missing
    <3> QED
      BY <1>1, <2>1, <3>1, <3>2, AnswerServed
  <2>5. CASE Route(c) # "nowhere" /\ ~Allows(Route(c), Verb(c))
    <3>1. Answers(c, Answer(c, 405)) /\ (405 \in Statuses(c))'
      BY <1>2, <2>3, <2>5 DEF Dispatch, Statuses, Missing
    <3> QED
      BY <1>1, <2>1, <3>1, AnswerServed
  <2>6. CASE Route(c) # "nowhere" /\ Allows(Route(c), Verb(c))
    <3>1. WellFormed(asked[c]) /\ asked[c] \in Seq(Pieces)
      BY <1>0, <2>1 DEF Served, Seen, TypeOK
    <3>2. asked[c][1] \in RequestLines
      BY <3>1, FirstEnd, KindsOfPieces DEF WellFormed
    <3>3. Route(c) \in {"page", "events", "write"}
      BY <2>3, <2>6, <3>2 DEF RequestLines
    <3>4. stage'[c] = Route(c)
      BY <1>0, <1>2, <2>6 DEF Dispatch, Missing, GoesTo, TypeOK
    <3>5. Seen(c)'
      BY <1>0, <1>1, <2>1, <3>3, <3>4 DEF Served, Seen, Handling
    <3>6. Routed(c)'
      BY <2>1, <2>2, <2>3, <2>6, <3>3, <3>4 DEF Routed, Handling
    <3>7. Told(c)'
      BY <1>1, <2>2, <3>3, <3>4 DEF Told
    <3> QED
      BY <3>5, <3>6, <3>7 DEF Served
  <2> QED
    BY <2>4, <2>5, <2>6
<1>3. CASE Lock(c)
  <2>1. stage[c] = "page" /\ stage'[c] = "locked" /\ panicked' = panicked /\ wrote' = wrote
    BY <1>0, <1>3 DEF Lock, GoesTo, TypeOK, effects
  <2>2. got[c] = Nothing
    BY <2>1, NothingYet
  <2> QED
    BY <1>0, <1>1, <2>1, <2>2 DEF Served, Seen, Routed, Told, Handling, Route, Verb
<1>4. ASSUME Draw(c) \/ Write(c) \/ Panic(c) PROVE Served(c)'
  <2>1. stage[c] \in {"locked", "write"} /\ stage[c] \in Handling
    BY <1>4 DEF Draw, Write, Panic, Handling
  <2>2. /\ c \notin panicked /\ c \notin wrote
        /\ Allows(Route(c), Verb(c))
        /\ stage[c] = "locked" => Route(c) = "page"
        /\ stage[c] = "write" => Route(c) = "write"
    BY <1>0, <2>1 DEF Served, Routed
  <2>3. Route(c)' = Route(c) /\ Verb(c)' = Verb(c)
    BY <1>1 DEF Route, Verb
  <2>4. CASE Draw(c)
    <3>1. PICK status \in {200, 400, 404, 500} : Answers(c, Answer(c, status))
      BY <2>4 DEF Draw
    <3>2. stage[c] = "locked" /\ panicked' = panicked /\ wrote' = wrote
      BY <2>4 DEF Draw, effects
    <3> QED
      <4>1. (status \in Statuses(c))'
        BY <2>2, <2>3, <3>1, <3>2 DEF Statuses, Missing
      <4> QED
        BY <1>1, <2>1, <3>1, <3>2, <4>1, AnswerServed
  <2>5. CASE Write(c)
    <3>1. stage[c] = "write" /\ panicked' = panicked
      BY <2>5 DEF Write
    <3>2. CASE Answers(c, Answer(c, 204)) /\ wrote' = wrote \cup {c}
      <4>1. (204 \in Statuses(c))'
        BY <2>2, <2>3, <3>1, <3>2 DEF Statuses, Missing
      <4> QED
        BY <1>1, <2>1, <3>1, <3>2, <4>1, AnswerServed
    <3>3. ASSUME NEW status \in {400, 404, 500}, Answers(c, Answer(c, status)), wrote' = wrote
          PROVE  Served(c)'
      <4>1. (status \in Statuses(c))'
        BY <2>2, <2>3, <3>1, <3>3 DEF Statuses, Missing
      <4> QED
        BY <1>1, <2>1, <3>1, <3>3, <4>1, AnswerServed
    <3> QED
      BY <2>5, <3>2, <3>3 DEF Write
  <2>6. CASE Panic(c)
    <3>1. Answers(c, Answer(c, 500)) /\ c \in panicked' /\ wrote' = wrote
      BY <2>6 DEF Panic
    <3>2. (500 \in Statuses(c))'
      <4>1. c \in panicked' /\ c \notin wrote'
        BY <2>2, <3>1
      <4> QED
        BY <2>1, <2>2, <2>3, <4>1 DEF Statuses, Missing
    <3> QED
      BY <1>1, <2>1, <3>1, <3>2, AnswerServed
  <2> QED
    BY <1>4, <2>4, <2>5, <2>6
<1> QED
  BY <1>2, <1>3, <1>4

LEMMA ClosingServed ==
    ASSUME ServerInv, NEW c \in Conns, Gone(c) \/ Reply(c) \/ OpenStream(c) \/ EndStream(c)
    PROVE  Served(c)'
<1>0. TypeOK /\ Served(c)
  BY DEF ServerInv
<1>1. asked' = asked /\ client' = client /\ wrote' = wrote
  BY DEF Gone, Reply, OpenStream, EndStream, clients, effects
<1>2. Route(c)' = Route(c) /\ Verb(c)' = Verb(c)
  BY <1>1 DEF Route, Verb
<1>3. CASE Gone(c)
  <2>1. got'[c] = Nothing /\ stage'[c] = "closed"
    BY <1>0, <1>3, NothingYet DEF Gone, Reading, Closes, GoesTo, TypeOK
  <2> QED
    BY <2>1, ClosedServed
<1>4. CASE Reply(c)
  <2>1. /\ stage[c] = "replying" /\ stage'[c] = "closed" /\ panicked' = panicked
        /\ got'[c] = IF client[c] = "here" THEN reply[c] ELSE got[c]
    BY <1>0, <1>4 DEF Reply, Closes, GoesTo, TypeOK, effects
  <2>2. got[c] = Nothing
    BY <2>1, NothingYet
  <2>3. client[c] = "here" => Deserves(c, reply[c])
    BY <1>0, <2>1 DEF Served, Told
  <2>4. (got[c] # Nothing => Deserves(c, got[c]))'
    BY <1>1, <1>2, <2>1, <2>2, <2>3 DEF Deserves, Statuses, Missing
  <2> QED
    BY <2>1, <2>4, ClosedServed
<1>5. CASE OpenStream(c)
  <2>1. /\ stage[c] = "events" /\ stage'[c] = "streaming" /\ panicked' = panicked
        /\ read' = read /\ left' = left
        /\ got'[c] = IF client[c] = "here" THEN EventStream ELSE got[c]
    BY <1>0, <1>5 DEF OpenStream, GoesTo, TypeOK, effects, parser
  <2>2. got[c] = Nothing /\ MaxBody \in Nat
    BY <2>1, NothingYet, ServerAssumption
  <2>3. /\ Route(c) = "events" /\ Allows(Route(c), Verb(c))
        /\ WellFormed(asked[c]) /\ Bytes(asked[c]) \in 0..MaxBody
    BY <1>0, <2>1 DEF Served, Seen, Routed, Handling
  <2>4. Verb(c) # "HEAD" /\ EventStream.status = 200 /\ EventStream.body
    BY <2>3 DEF Allows, EventStream, Says
  <2>5. ~(Bytes(asked[c]) > MaxBody)
    BY <2>2, <2>3
  <2>6. Told(c)'
    BY <1>1, <1>2, <2>1, <2>2, <2>3, <2>4, <2>5 DEF Told, Deserves, Statuses, Missing
  <2>7. Seen(c)' /\ Routed(c)'
    BY <1>0, <1>1, <1>2, <2>1, <2>3 DEF Served, Seen, Routed, Handling
  <2> QED
    BY <2>6, <2>7 DEF Served
<1>6. CASE EndStream(c)
  <2>1. /\ stage[c] = "streaming" /\ stage'[c] = "closed" /\ got' = got
    BY <1>0, <1>6 DEF EndStream, Closes, GoesTo, TypeOK
  <2>2. Route(c) = "events"
    BY <1>0, <2>1 DEF Served, Routed, Handling
  <2>3. got[c] # Nothing => Deserves(c, got[c])
    BY <1>0 DEF Served, Told
  <2>4. (got[c] # Nothing => Deserves(c, got[c]))'
    BY <1>1, <1>2, <2>1, <2>2, <2>3 DEF Deserves, Statuses, Missing
  <2> QED
    BY <2>1, <2>4, ClosedServed
<1> QED
  BY <1>3, <1>4, <1>5, <1>6

-----------------------------------------------------------------------------
(* Every step, and the theorems. *)

LEMMA ServerKeeps ==
    ASSUME ServerInv, [Next]_vars
    PROVE  ServerInv'
<1>0. TypeOK /\ \A c \in Conns : Served(c)
  BY DEF ServerInv
<1>1. ASSUME NEW c \in Conns, Connection(c) PROVE ServerInv'
  <2>1. TypeOK'
    BY <1>1, ConnectionTypes
  <2>2. asked' = asked
    BY <1>1 DEF Connection, Thread, Send, Turn, Panic, EndStream, Accept, ReadRequestLine,
       RefuseRequestLine, ReadHeader, RefuseHeader, ReadEnd, RefuseLength, ReadByte, Gone, Torn,
       Dispatch, Lock, Draw, Write, Reply, OpenStream, Refuse, clients
  <2>3. Served(c)'
    <3>1. CASE Send(c) \/ Turn(c)
      <4>1. /\ asked' = asked /\ got' = got /\ stage' = stage /\ parser' = parser
            /\ reply' = reply /\ effects' = effects
            /\ client'[c] # "left" => client[c] # "left"
        BY <1>0, <3>1 DEF Send, Turn, TypeOK
      <4>2. Seen(c)' /\ Routed(c)'
        BY <1>0, <4>1 DEF Served, Seen, Routed, Route, Verb, parser, effects
      <4>3. \A r : Deserves(c, r) <=> Deserves(c, r)'
        BY <4>1 DEF Deserves, Statuses, Missing, Route, Verb, effects
      <4>4. Told(c)'
        BY <1>0, <4>1, <4>3 DEF Served, Told
      <4> QED
        BY <4>2, <4>4 DEF Served
    <3> QED
      BY <1>1, <3>1, ReadingServed, RefusingServed, HandlingServed, ClosingServed
         DEF Connection, Thread
  <2>4. ASSUME NEW d \in Conns, d # c PROVE Served(d)'
    BY <1>0, <1>1, <2>2, <2>4, OthersAreStill, StillServed
  <2> QED
    BY <2>1, <2>3, <2>4 DEF ServerInv
<1>2. CASE Exit
  <2>1. UNCHANGED <<asked, client, sent, got, panicked, wrote, poisoned, runner, shutdown>>
    BY <1>2 DEF Exit, clients, effects
  <2>2. /\ stage' = [c \in Conns |-> "closed"] /\ read' = [c \in Conns |-> 0]
        /\ headers' = [c \in Conns |-> <<>>] /\ left' = [c \in Conns |-> 0]
        /\ reply' = [c \in Conns |-> Nothing] /\ holder' = Nobody /\ main' = "exited"
    BY <1>2 DEF Exit
  <2>3. reply' \in [Conns -> Replies] /\ headers' \in [Conns -> Seq(Pieces)]
    BY <2>2 DEF Nothing, Replies
  <2>4. TypeOK'
    BY <1>0, <2>1, <2>2, <2>3 DEF TypeOK
  <2>5. ASSUME NEW c \in Conns PROVE Served(c)'
    <3>1. \A r : Deserves(c, r) <=> Deserves(c, r)'
      BY <2>1 DEF Deserves, Statuses, Missing, Route, Verb
    <3>2. (got[c] # Nothing => Deserves(c, got[c]))'
      BY <1>0, <2>1, <2>5, <3>1 DEF Served, Told
    <3> QED
      BY <2>2, <2>5, <3>2, ClosedServed
  <2> QED
    BY <2>4, <2>5 DEF ServerInv
<1>3. CASE SeesTheFlag \/ Breaks \/ Signal \/ RunnerThread \/ UNCHANGED vars
  <2>1. UNCHANGED <<clients, got, stage, parser, reply, mutex, effects>>
    BY <1>3 DEF SeesTheFlag, Breaks, StopServing, Signal, RunnerThread, EndPass, EndWait, vars
  <2>2. /\ main' \in {"serving", "joining", "exited"}
        /\ runner' \in {"passing", "waiting", "ended"}
        /\ shutdown' \in BOOLEAN
    BY <1>0, <1>3 DEF TypeOK, SeesTheFlag, Breaks, StopServing, Signal, RunnerThread, EndPass,
       EndWait, vars, process
  <2>3. TypeOK'
    BY <1>0, <2>1, <2>2 DEF TypeOK, clients, parser, mutex, effects
  <2>4. ASSUME NEW c \in Conns PROVE Served(c)'
    BY <2>1, <2>4, StillServed DEF Still, clients, parser, effects
  <2> QED
    BY <2>3, <2>4 DEF ServerInv
<1> QED
  BY <1>1, <1>2, <1>3 DEF Next, Process, Connection

LEMMA ServerInvHolds == Safety => []ServerInv
<1>1. Init => ServerInv
  BY ServerStarts
<1>2. ServerInv /\ [Next]_vars => ServerInv'
  BY ServerKeeps
<1> QED
  BY <1>1, <1>2, PTL DEF Safety

(* Whatever is sent, however long and cut off wherever, a handler runs for *)
(* requests that have arrived whole and are well formed (Request::parse,   *)
(* answer).                                                                *)
THEOREM OnlyWholeRequests == Safety => []HandlersSeeWholeRequests
<1>1. ServerInv => HandlersSeeWholeRequests
  <2> SUFFICES ASSUME ServerInv, NEW c \in Conns, stage[c] \in Handling
               PROVE  /\ WellFormed(asked[c])
                      /\ Bytes(asked[c]) <= MaxBody
                      /\ read[c] = HeadEnd(asked[c]) + Bytes(asked[c])
                      /\ read[c] <= sent[c]
    BY DEF HandlersSeeWholeRequests
  <2>1. /\ WellFormed(asked[c]) /\ Bytes(asked[c]) \in 0..MaxBody /\ left[c] = 0
        /\ read[c] + left[c] = HeadEnd(asked[c]) + Bytes(asked[c])
    BY DEF ServerInv, Served, Seen
  <2>2. read[c] \in Nat /\ read[c] <= sent[c] /\ MaxBody \in Nat
    BY ServerAssumption DEF ServerInv, TypeOK
  <2> QED
    BY <2>1, <2>2
<1> QED
  BY <1>1, ServerInvHolds, PTL

(* Whichever handlers panic, and whoever holds the mutex then, an answer   *)
(* is a refusal of what this client sent, or what its own handler made of  *)
(* it (Server::serve, answer, lock).                                       *)
THEOREM NobodyElsesAnswer == Safety => []AnswersAreTheirOwn
<1>1. ServerInv => AnswersAreTheirOwn
  BY DEF ServerInv, Served, Told, AnswersAreTheirOwn
<1> QED
  BY <1>1, ServerInvHolds, PTL

===============================================================================
