---------------------------- MODULE TelegramAdapter ----------------------------
(***************************************************************************)
(* The bot's way in and out (telegram-adapter.ts, media-group-buffer.ts).  *)
(* Telegram delivers updates, some of them again; the adapter remembers    *)
(* the ids of the last ones.  A text becomes a turn at once.  A photo is   *)
(* downloaded, put into the buffer of its album, or of the chat for one    *)
(* that comes alone, and becomes a turn with what else is there when       *)
(* nothing has come for a while.                                           *)
(*                                                                         *)
(* The turns of the chat form a chain of promises: each starts when the    *)
(* one queued before it has settled, however it did.  A turn calls the     *)
(* graph and sends the reply in pieces that Telegram takes; what fails is  *)
(* reported, and the report may fail.  Only one chat is let in, so there   *)
(* is one chain.  All of this is in the memory of the process.             *)
(*                                                                         *)
(* A reply is a sequence of lines, a line the number of its characters.    *)
(***************************************************************************)
EXTENDS Integers, FiniteSets, SequencesExt

CONSTANTS
    Texts, Photos,
    Others,         \* updates of other kinds, and those of somebody else
    Album,          \* the photos that come as an album
    Replies,        \* what the graph answers
    MaxLength,      \* characters that Telegram takes in a message
    MaxTracked,     \* MAX_TRACKED_UPDATE_IDS
    MaxAccepted,    \* updates that are not taken for duplicates (bound)
    MaxCrashes      \* (bound)

ASSUME KindsAssumption == Texts \cap Photos = {} /\ Album \subseteq Photos
\* sendOutbound trims the answer, and has a text of its own for one without text.
ASSUME RepliesAssumption ==
    \A r \in Replies : r \in Seq(Nat) /\ r # <<>> /\ r[1] > 0
ASSUME LimitsAssumption == {MaxLength, MaxTracked} \subseteq Nat \ {0}

VARIABLES
    tracked,    \* the ids remembered, the oldest first
    forgotten,  \* forgotten[u]: how often the id of u has been forgotten
    accepted,   \* the deliveries that were not duplicates: their update, and where it is
    buffers,    \* buffers[k]: the deliveries in the photo buffer k
    turns,      \* the turns of the chat
    tail,       \* the turn that the next one is to wait for
    crashes

vars == <<tracked, forgotten, accepted, buffers, turns, tail, crashes>>

Updates == Texts \cup Photos \cup Others
Keys == {"album", "rapid"}
Deliveries == DOMAIN accepted

Init ==
    /\ tracked = <<>> /\ forgotten = [u \in Updates |-> 0] /\ accepted = <<>>
    /\ buffers = [k \in Keys |-> <<>>]
    /\ turns = <<>> /\ tail = 0 /\ crashes = 0

(***************************************************************************)
(* The way in.                                                             *)
(***************************************************************************)
\* resolvePhotoBufferKey
KeyOf(u) == IF u \in Album THEN "album" ELSE "rapid"

\* markUpdateProcessed: the oldest id makes room.
Marked_Newest(u) == IF Len(tracked) < MaxTracked THEN Append(tracked, u) ELSE tracked
Marked(u) == IF Len(tracked) < MaxTracked THEN Append(tracked, u) ELSE Tail(Append(tracked, u))

\* runExclusiveForThread: previous.then(task, task).
Turn(members, after) == [members |-> members, after |-> after, stage |-> "waiting", reply |-> <<>>, sent |-> 0]

Chained_Beside(members) == turns' = Append(turns, Turn(members, 0)) /\ tail' = Len(turns) + 1
Chained(members) == turns' = Append(turns, Turn(members, tail)) /\ tail' = Len(turns) + 1

\* handleMessage, up to its first wait: somebody else's update is marked before it is dropped.
Deliver(u) ==
    IF u \in ToSet(tracked)
    THEN UNCHANGED vars
    ELSE /\ Len(accepted) < MaxAccepted
         /\ tracked' = Marked(u)
         /\ forgotten' = [v \in Updates |-> forgotten[v] + IF v \in ToSet(tracked) \ ToSet(tracked') THEN 1 ELSE 0]
         /\ accepted' = Append(accepted, [update |-> u, at |-> IF u \in Photos THEN "download" ELSE IF u \in Texts THEN "held" ELSE "dropped"])
         /\ IF u \in Texts THEN Chained(<<Len(accepted) + 1>>) ELSE UNCHANGED <<turns, tail>>
         /\ UNCHANGED <<buffers, crashes>>

\* parseInbound after the download: MediaGroupBuffer.add, which starts the buffer's timer anew.
Downloaded(d) ==
    /\ accepted[d].at = "download"
    /\ accepted' = [accepted EXCEPT ![d].at = "held"]
    /\ buffers' = [buffers EXCEPT ![KeyOf(accepted[d].update)] = Append(@, d)]
    /\ UNCHANGED <<tracked, forgotten, turns, tail, crashes>>

\* getFileLink or fetchImageAsDataUrl throws, and handleMessage with it.
DownloadFails(d) ==
    /\ accepted[d].at = "download"
    /\ accepted' = [accepted EXCEPT ![d].at = "rejected"]
    /\ UNCHANGED <<tracked, forgotten, buffers, turns, tail, crashes>>

\* The buffer's timer: flush.
Emptied_Kept(k) == buffers
Emptied(k) == [buffers EXCEPT ![k] = <<>>]

Flush(k) ==
    /\ buffers[k] # <<>>
    /\ Chained(buffers[k]) /\ buffers' = Emptied(k)
    /\ UNCHANGED <<tracked, forgotten, accepted, crashes>>

(***************************************************************************)
(* splitMessage.  A piece of a chunk is a stretch of a line.               *)
(***************************************************************************)
Piece(i, a, b) == [line |-> i, from |-> a, to |-> b]
Characters(piece) == {piece.line} \X (piece.from..piece.to)
Newlines(chunk) == IF chunk = <<>> THEN 0 ELSE Len(chunk) - 1
Size(chunk) == Cardinality(UNION {{n} \X Characters(chunk[n]) : n \in DOMAIN chunk}) + Newlines(chunk)
Flushed(chunk) == IF chunk = <<>> THEN <<>> ELSE <<chunk>>
Fresh(i, n) == IF n = 0 THEN <<>> ELSE <<Piece(i, 1, n)>>

HardSplit(i, n) ==
    [k \in 1..((n + MaxLength - 1) \div MaxLength) |->
        <<Piece(i, (k - 1) * MaxLength + 1, IF k * MaxLength < n THEN k * MaxLength ELSE n)>>]

\* One line of the loop: acc has the chunks so far and the current one.
LineAdded_NoFlush(acc, i, n) ==
    LET test == IF acc.current = <<>> THEN Fresh(i, n) ELSE Append(acc.current, Piece(i, 1, n))
    IN IF n > MaxLength THEN [chunks |-> acc.chunks \o HardSplit(i, n), current |-> <<>>]
       ELSE IF Size(test) <= MaxLength THEN [acc EXCEPT !.current = test]
       ELSE [chunks |-> acc.chunks \o Flushed(acc.current), current |-> Fresh(i, n)]
LineAdded(acc, i, n) ==
    LET test == IF acc.current = <<>> THEN Fresh(i, n) ELSE Append(acc.current, Piece(i, 1, n))
    IN IF n > MaxLength THEN [chunks |-> acc.chunks \o Flushed(acc.current) \o HardSplit(i, n), current |-> <<>>]
       ELSE IF Size(test) <= MaxLength THEN [acc EXCEPT !.current = test]
       ELSE [chunks |-> acc.chunks \o Flushed(acc.current), current |-> Fresh(i, n)]

\* What the loop has after each line.
Split(reply) ==
    LET acc[n \in 0..Len(reply)] ==
            IF n = 0 THEN [chunks |-> <<>>, current |-> <<>>] ELSE LineAdded(acc[n - 1], n, reply[n])
    IN acc

Chunks(reply) ==
    LET whole == [i \in DOMAIN reply |-> Piece(i, 1, reply[i])]
        last  == Split(reply)[Len(reply)]
    IN IF Size(whole) <= MaxLength THEN <<whole>> ELSE last.chunks \o Flushed(last.current)

\* The messages that each reply is sent as.
Messages == [r \in Replies |-> Chunks(r)]

(***************************************************************************)
(* A turn: the task of processInboundMessage.                              *)
(***************************************************************************)
Settled == {"answered", "reported"}
Over(t, stage) == [t EXCEPT !.stage = stage, !.reply = <<>>, !.sent = 0]
Goes(i, t) == turns' = [turns EXCEPT ![i] = t] /\ UNCHANGED <<tracked, forgotten, accepted, buffers, tail, crashes>>

MayStart_IfResolved(i) == \A j \in DOMAIN turns : j = turns[i].after => turns[j].stage = "answered"
MayStart(i) == \A j \in DOMAIN turns : j = turns[i].after => turns[j].stage \in Settled

Start(i) ==
    /\ turns[i].stage = "waiting" /\ MayStart(i)
    /\ Goes(i, [turns[i] EXCEPT !.stage = "graph"])

\* triggerWorkflow; a reply without a message or without text is an error message of its own.
Replied(i) ==
    /\ turns[i].stage = "graph"
    /\ \E r \in Replies : Goes(i, [turns[i] EXCEPT !.stage = "sending", !.reply = r])

\* The next chunk, formatted or, if Telegram does not parse it, plain.
Sent(i) ==
    /\ turns[i].stage = "sending"
    /\ LET last == turns[i].sent + 1 = Len(Messages[turns[i].reply])
       IN Goes(i, IF last THEN Over(turns[i], "answered") ELSE [turns[i] EXCEPT !.sent = @ + 1])

\* sendChatAction, the graph or a chunk fails: sendSystemError.
Fails(i) ==
    /\ turns[i].stage \in {"graph", "sending"}
    /\ Goes(i, Over(turns[i], "reporting"))

\* The report has been sent, or has failed, and the task with it.
Reported(i) ==
    /\ turns[i].stage = "reporting"
    /\ Goes(i, [turns[i] EXCEPT !.stage = "reported"])

\* The process ends and starts again, with nothing in its memory.
Crash ==
    /\ crashes < MaxCrashes /\ crashes' = crashes + 1
    /\ tracked' = <<>> /\ forgotten' = [u \in Updates |-> forgotten[u] + IF u \in ToSet(tracked) THEN 1 ELSE 0]
    /\ accepted' = [d \in Deliveries |-> [accepted[d] EXCEPT !.at = "lost"]]
    /\ buffers' = [k \in Keys |-> <<>>] /\ turns' = <<>> /\ tail' = 0

TurnStep(i) == Start(i) \/ Replied(i) \/ Sent(i) \/ Fails(i) \/ Reported(i)

AdapterStep ==
    \/ \E d \in Deliveries : Downloaded(d) \/ DownloadFails(d)
    \/ \E k \in Keys : Flush(k)
    \/ \E i \in DOMAIN turns : TurnStep(i)

Next == AdapterStep \/ Crash \/ \E u \in Updates : Deliver(u)

Spec == Init /\ [][Next]_vars /\ WF_vars(AdapterStep)

(***************************************************************************)
(* Properties.                                                             *)
(***************************************************************************)
\* An update that is delivered again is acted upon again only after its id has been
\* forgotten, to make room for others or in a crash.
OncePerMark ==
    \A u \in Updates :
        Cardinality({d \in Deliveries : accepted[d].update = u}) <= forgotten[u] + 1

\* What has come in is in one turn or waits in one buffer: no photo is dropped between
\* a buffer and a turn, and none is seen by the graph twice, however downloads, timers
\* and turns interleave.
KeptOnce ==
    /\ \A d \in Deliveries : accepted[d].at = "held" =>
          Cardinality({k \in Keys : d \in ToSet(buffers[k])})
          + Cardinality({i \in DOMAIN turns : d \in ToSet(turns[i].members)}) = 1
    /\ \A k \in Keys : IsInjective(buffers[k])
    /\ \A i \in DOMAIN turns : IsInjective(turns[i].members)

\* The turns of the chat run one at a time, in the order they were queued.
OneAtATime ==
    \A i, j \in DOMAIN turns : i < j /\ turns[j].stage # "waiting" => turns[i].stage \in Settled

\* The characters of a reply, and those of a message.
Text(reply) == UNION {{i} \X (1..reply[i]) : i \in DOMAIN reply}
Said(chunk) == UNION {Characters(chunk[n]) : n \in DOMAIN chunk}
Before(c, d) == c[1] < d[1] \/ (c[1] = d[1] /\ c[2] < d[2])
AllBefore(C, D) == \A c \in C, d \in D : Before(c, d)

\* Each message is one that Telegram takes; characters come in their order, none twice; what
\* has been sent is a beginning of the reply.
Fit(chunks) == \A k \in DOMAIN chunks : Size(chunks[k]) <= MaxLength
Ordered(chunks) ==
    /\ \A k, l \in DOMAIN chunks : k < l => AllBefore(Said(chunks[k]), Said(chunks[l]))
    /\ \A k \in DOMAIN chunks : \A m, n \in DOMAIN chunks[k] :
          m < n => AllBefore(Characters(chunks[k][m]), Characters(chunks[k][n]))
SaidBy(chunks) == UNION {Said(chunks[k]) : k \in DOMAIN chunks}
Begins(chunks, reply) ==
    /\ Fit(chunks) /\ Ordered(chunks) /\ SaidBy(chunks) \subseteq Text(reply)
    /\ AllBefore(SaidBy(chunks), Text(reply) \ SaidBy(chunks))

First(r, n) == SubSeq(Messages[r], 1, n)
Beginnings == [r \in Replies |-> {n \in 0..Len(Messages[r]) : Begins(First(r, n), r)}]
Wholes     == [r \in Replies |-> {n \in 0..Len(Messages[r]) : SaidBy(First(r, n)) = Text(r)}]

\* A turn has sent a beginning of the reply, in order, in messages that Telegram takes,
\* and the whole of it when it becomes answered.
SentInFull ==
    [][\A i \in DOMAIN turns : LET t == turns[i] IN t.stage = "sending" =>
          /\ t.sent \in Beginnings[t.reply]
          /\ i \in DOMAIN turns' /\ turns'[i].stage = "answered" => t.sent + 1 \in Wholes[t.reply]]_vars

\* Every update that comes in is done with: a turn that fails, and one whose report
\* fails, do not hold up those that are queued behind it.
ComesToRest ==
    <>[]/\ \A d \in Deliveries : accepted[d].at # "download"
        /\ \A k \in Keys : buffers[k] = <<>>
        /\ \A i \in DOMAIN turns : turns[i].stage \in Settled
=============================================================================
