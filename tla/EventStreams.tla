---------------------------- MODULE EventStreams ----------------------------
(***************************************************************************)
(* The live views of the master: the event log of a run over SSE           *)
(* (internal/http/sse.go), the tail of the events table                    *)
(* (GET /events/stream) and the tail of the in-memory log ring             *)
(* (GET /logs/master/stream).                                              *)
(*                                                                         *)
(* An event is named by the order of its insertion; its rowid is what      *)
(* SQLite gives it, the largest rowid in the table plus one.  All events   *)
(* are of one run and pass the viewer's filter.  A viewer is one HTTP      *)
(* request of one of the three kinds; the kinds share no state but the     *)
(* counter of live log streams.                                            *)
(***************************************************************************)
EXTENDS Naturals, Sequences, FiniteSets, SequencesExt

CONSTANTS Viewers,       \* the requests
          Kinds,         \* a subset of {"run", "events", "master"}
          MaxEvents,     \* bound on the events inserted
          MaxLogs,       \* bound on the log records written
          Batch,         \* logTailBatch: rows of one poll
          Capacity,      \* logbuffer.DefaultCapacity: records of the ring
          ChanSize,      \* slots of a subscriber's channel
          ReplayLimit,   \* events replayed to a new SSE client
          MaxStreams,    \* maxLogStreams
          Stored         \* events in the table when the master starts

StreamsAssumption ==
    /\ {MaxEvents, MaxLogs, Stored} \subseteq Nat
    /\ {Batch, Capacity, ChanSize, ReplayLimit, MaxStreams} \subseteq Nat \ {0}
    /\ Kinds \subseteq {"run", "events", "master"}

VARIABLES rows,      \* the events table: rowid -> event
          inserted,  \* how many events were ever inserted
          unsent,    \* events stored by a handler and not yet published
          published, \* events handed to the broadcaster
          logSeq,    \* Buffer.seq: the newest log record
          live,      \* Server.logStreams
          view       \* the viewers

streamVars == <<rows, inserted, unsent, published, logSeq, live, view>>

Events == 1..MaxEvents

\* A request that has not arrived.
Absent == [kind |-> "none", pc |-> "none", after |-> 0, floor |-> 0,
           seen |-> {}, repeated |-> FALSE, chan |-> <<>>, lost |-> {}]

StreamsInit ==
    /\ rows = [s \in 1..Stored |-> s]
    /\ inserted = Stored
    /\ unsent = {} /\ published = {}
    /\ logSeq = 1        \* the master logs before it serves HTTP
    /\ live = 0
    /\ view = [v \in Viewers |-> Absent]

LatestEventSeq == IF DOMAIN rows = {} THEN 0 ELSE Max(DOMAIN rows)

Put(f, x, y) == [z \in DOMAIN f \cup {x} |-> IF z = x THEN y ELSE f[z]]

(***************************************************************************)
(* The events table.                                                       *)
(***************************************************************************)
Insert ==
    /\ inserted < MaxEvents
    /\ inserted' = inserted + 1
    /\ rows' = Put(rows, LatestEventSeq + 1, inserted + 1)

\* A store transaction that records its own event; nobody publishes it.
InsertEventOnce ==
    /\ Insert
    /\ UNCHANGED <<unsent, published, logSeq, live, view>>

\* A handler stores its event and then publishes it.
InsertEvent ==
    /\ Insert
    /\ unsent' = unsent \cup {inserted + 1}
    /\ UNCHANGED <<published, logSeq, live, view>>

Subscribed(v) == view[v].kind = "run" /\ view[v].pc \in {"subscribed", "replayed"}

\* Broadcaster.Publish: a full channel loses the event.
Delivered(w, e) ==
    IF Len(w.chan) < ChanSize
    THEN [w EXCEPT !.chan = Append(@, e)]
    ELSE [w EXCEPT !.lost = @ \cup {e}]

Publish(e) ==
    /\ e \in unsent
    /\ unsent' = unsent \ {e}
    /\ published' = published \cup {e}
    /\ view' = [v \in Viewers |-> IF Subscribed(v) THEN Delivered(view[v], e) ELSE view[v]]
    /\ UNCHANGED <<rows, inserted, logSeq, live>>

\* PruneHistory removes every event of the runs that finished before the
\* cutoff: the older rows up to any point, and all of them on an idle master.
\* The handlers of such a run are long done: what they stored is published.
PruneHistory ==
    /\ unsent = {}
    /\ \E kept \in SUBSET DOMAIN rows :
          /\ kept # DOMAIN rows
          /\ \A s \in kept, t \in DOMAIN rows \ kept : t < s
          /\ rows' = [s \in kept |-> rows[s]]
    /\ UNCHANGED <<inserted, unsent, published, logSeq, live, view>>

(***************************************************************************)
(* The log ring.                                                           *)
(***************************************************************************)
\* Buffer.add: the record takes the slot of the one Capacity before it.
add ==
    /\ logSeq < MaxLogs
    /\ logSeq' = logSeq + 1
    /\ UNCHANGED <<rows, inserted, unsent, published, live, view>>

Ring == {s \in 1..logSeq : s + Capacity > logSeq}

(***************************************************************************)
(* The SSE stream of a run.                                                *)
(***************************************************************************)
Arrive(v, k) ==
    /\ view[v].pc = "none" /\ k \in Kinds
    /\ view' = [view EXCEPT ![v].kind = k, ![v].pc = "start"]
    /\ UNCHANGED <<rows, inserted, unsent, published, logSeq, live>>

\* At most ReplayLimit rows of the run, those with the smallest ts.  A handler
\* takes the ts before it inserts, so any of the rows may be among them.
ListEventsForRun ==
    kSubset(IF Cardinality(DOMAIN rows) < ReplayLimit THEN Cardinality(DOMAIN rows) ELSE ReplayLimit,
            DOMAIN rows)

\* What the client was sent, and what the limit of the replay cut off.
Replayed(w, listed) == [w EXCEPT !.seen = @ \cup {rows[s] : s \in listed},
                                 !.lost = @ \cup {rows[s] : s \in DOMAIN rows \ listed}]

\* Mutant: the table is read first and the subscription follows.
SubscribeAfterReplay(v) ==
    /\ view[v].kind = "run"
    /\ \/ /\ view[v].pc = "start"
          /\ \E listed \in ListEventsForRun :
                view' = [view EXCEPT ![v] = [Replayed(@, listed) EXCEPT !.pc = "listed"]]
       \/ view[v].pc = "listed" /\ view' = [view EXCEPT ![v].pc = "replayed"]
    /\ UNCHANGED <<rows, inserted, unsent, published, logSeq, live>>

\* SSEHandler subscribes before it reads the table.
Subscribe(v) ==
    /\ view[v].kind = "run" /\ view[v].pc = "start"
    /\ view' = [view EXCEPT ![v].pc = "subscribed"]
    /\ UNCHANGED <<rows, inserted, unsent, published, logSeq, live>>

Replay(v) ==
    /\ view[v].kind = "run" /\ view[v].pc = "subscribed"
    /\ \E listed \in ListEventsForRun :
          view' = [view EXCEPT ![v] = [Replayed(@, listed) EXCEPT !.pc = "replayed"]]
    /\ UNCHANGED <<rows, inserted, unsent, published, logSeq, live>>

\* One event from the channel to the client.
Forward(v) ==
    /\ view[v].kind = "run" /\ view[v].pc = "replayed" /\ view[v].chan # <<>>
    /\ view' = [view EXCEPT ![v].seen = @ \cup {Head(view[v].chan)}, ![v].chan = Tail(@)]
    /\ UNCHANGED <<rows, inserted, unsent, published, logSeq, live>>

\* The client went away.
Unsubscribe(v) ==
    /\ view[v].kind = "run" /\ view[v].pc # "start"
    /\ view' = [view EXCEPT ![v] = Absent]
    /\ UNCHANGED <<rows, inserted, unsent, published, logSeq, live>>

(***************************************************************************)
(* The log viewer streams.                                                 *)
(***************************************************************************)
LogViewer(v) == view[v].kind \in {"events", "master"}

\* Both handlers start after the newest entry when the client names none.
Latest(k) == IF k = "events" THEN LatestEventSeq ELSE logSeq

StartAfter(v) ==
    /\ LogViewer(v) /\ view[v].pc = "start"
    /\ view' = [view EXCEPT ![v].pc = "counting", ![v].after = Latest(view[v].kind),
                            ![v].floor = IF view[v].kind = "events" THEN inserted ELSE logSeq]
    /\ UNCHANGED <<rows, inserted, unsent, published, logSeq, live>>

\* Mutant: the limit is off by one.
CountOneMore(v) ==
    /\ LogViewer(v) /\ view[v].pc = "counting"
    /\ live' = live + 1
    /\ view' = [view EXCEPT ![v].pc = IF live > MaxStreams THEN "refused" ELSE "open"]
    /\ UNCHANGED <<rows, inserted, unsent, published, logSeq>>

\* logStreams.Add(1): a viewer over the limit gives the count back and leaves.
CountStream(v) ==
    /\ LogViewer(v) /\ view[v].pc = "counting"
    /\ live' = live + 1
    /\ view' = [view EXCEPT ![v].pc = IF live + 1 > MaxStreams THEN "refused" ELSE "open"]
    /\ UNCHANGED <<rows, inserted, unsent, published, logSeq>>

\* The stream ends; an EventSource that saw an entry remembers its id.
LeaveStream(v) ==
    /\ view[v].pc \in {"refused", "open"}
    /\ live' = live - 1
    /\ view' = [view EXCEPT ![v] = IF @.seen = {} THEN Absent ELSE [@ EXCEPT !.pc = "gone"]]
    /\ UNCHANGED <<rows, inserted, unsent, published, logSeq>>

\* Last-Event-ID takes the stream up after the last entry the client saw.
Reconnect(v) ==
    /\ view[v].pc = "gone"
    /\ view' = [view EXCEPT ![v].pc = "counting"]
    /\ UNCHANGED <<rows, inserted, unsent, published, logSeq, live>>

\* The sequence numbers a viewer of this kind can read, and the entry behind one.
Entries(k) == IF k = "events" THEN DOMAIN rows ELSE Ring
EntryAt(k, s) == IF k = "events" THEN rows[s] ELSE s

\* Mutant: every page is newest first.
NewestFirst(k, after) ==
    LET order == Reverse(SetToSortSeq({s \in Entries(k) : s > after}, LAMBDA a, b : a < b))
    IN  SubSeq(order, 1, IF Len(order) < Batch THEN Len(order) ELSE Batch)

\* One page: the oldest entries after "after", or, when "after" is zero, the
\* newest entries, newest first.
Page(k, after) ==
    LET S == {s \in Entries(k) : s > after}
        asc == SetToSortSeq(S, LAMBDA a, b : a < b)
        order == IF after > 0 THEN asc ELSE Reverse(asc)
    IN  SubSeq(order, 1, IF Len(order) < Batch THEN Len(order) ELSE Batch)

\* One poll of the SSE loop: every entry of the page is written and "after"
\* follows the last one written.
poll(v) ==
    /\ LogViewer(v) /\ view[v].pc = "open"
    /\ LET k == view[v].kind
           page == Page(k, view[v].after)
           sent == {EntryAt(k, page[i]) : i \in DOMAIN page}
       IN  /\ page # <<>>
           /\ view' = [view EXCEPT
                  ![v].after = Last(page),
                  ![v].seen = @ \cup sent,
                  ![v].repeated = @ \/ sent \cap view[v].seen # {}]
    /\ UNCHANGED <<rows, inserted, unsent, published, logSeq, live>>

StreamsNext ==
    \/ InsertEvent
    \/ InsertEventOnce
    \/ \E e \in Events : Publish(e)
    \/ PruneHistory
    \/ add
    \/ \E v \in Viewers :
          \/ \E k \in Kinds : Arrive(v, k)
          \/ Subscribe(v)
          \/ Replay(v)
          \/ Forward(v)
          \/ Unsubscribe(v)
          \/ StartAfter(v)
          \/ CountStream(v)
          \/ LeaveStream(v)
          \/ Reconnect(v)
          \/ poll(v)

StreamsSpec == StreamsInit /\ [][StreamsNext]_streamVars

(***************************************************************************)
(* Properties.                                                             *)
(***************************************************************************)
\* Type correctness: the table maps rowids to inserted events, and every
\* viewer is in a step of the handler of its kind.
StreamsTypeOK ==
    /\ DOMAIN rows \subseteq 1..MaxEvents
    /\ \A s \in DOMAIN rows : rows[s] \in 1..inserted
    /\ unsent \cup published \subseteq 1..inserted
    /\ live \in 0..Cardinality(Viewers)
    /\ \A v \in Viewers :
          /\ view[v].pc \in CASE view[v].kind = "none" -> {"none"}
                              [] view[v].kind = "run" -> {"start", "subscribed", "replayed"}
                              [] OTHER -> {"start", "counting", "refused", "open", "gone"}
          /\ Len(view[v].chan) <= ChanSize

\* A client of the SSE stream of a run that has had its replay has been sent
\* every published event still in the table, or finds it in its channel: none
\* falls between the read of the table and the subscription
\* (internal/http/sse.go SSEHandler).  The two losses the code accepts are
\* recorded apart: a full channel and the limit of the replay.
RunStreamHasNoGap ==
    \A v \in Viewers : (view[v].kind = "run" /\ view[v].pc = "replayed") =>
        \A s \in DOMAIN rows : rows[s] \in published =>
            rows[s] \in view[v].seen \cup ToSet(view[v].chan) \cup view[v].lost

\* An open viewer has been sent, once each, every entry that was made after it
\* opened, is still held and lies at or below the point it has reached.
SeesEveryEntry(k) ==
    \A v \in Viewers : (view[v].kind = k /\ view[v].pc = "open") =>
        /\ ~view[v].repeated
        /\ \A s \in Entries(k) : (s <= view[v].after /\ EntryAt(k, s) > view[v].floor) =>
              EntryAt(k, s) \in view[v].seen

\* The tail of the master log skips no record the ring still holds and
\* repeats none, whatever the bursts between two polls and across reconnects
\* (internal/http/logs.go handleMasterLogsStream).
LogTailIsComplete == SeesEveryEntry("master")

\* At most maxLogStreams viewers are served at a time, and the counter is given
\* back on every way out of the stream (internal/http/logs.go serveLogStream).
LogViewersCounted ==
    /\ live = Cardinality({v \in Viewers : view[v].pc \in {"refused", "open"}})
    /\ Cardinality({v \in Viewers : view[v].pc = "open"}) <= MaxStreams
=============================================================================
