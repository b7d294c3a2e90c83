------------------------------ MODULE LiveEvents -------------------------------
(* The live events of one run (live.py), the server-sent stream of the         *)
(* dashboard (web.py) and the tail a browser shows of it (useLiveBus.ts,       *)
(* LiveTail.tsx).                                                              *)
(*                                                                             *)
(* A writer is a thread of the dashboard's server or, in Remote, a process of  *)
(* its own: its bus has no subscribers, only the rows are shared.  The tail    *)
(* asks for the rows there are and adds what the stream brings.  An event's    *)
(* time is the one its client gave or the second it arrived in; its seq is read*)
(* before it is inserted, so that two writers may draw the same.  The limit of *)
(* a fetch (1000 rows) is out of reach of the bound MaxEvents, and a tail shows*)
(* one run: opened for another (a change of runId, LiveTail.tsx:26-37) it is   *)
(* opened again here, where the code shows the old rows until the answer.      *)
EXTENDS Integers, Sequences, FiniteSets, SequencesExt

CONSTANTS
  Writers, Remote,
  Streams,       \* requests for /api/events/stream, used again once they are over
  NoStream,
  Times,         \* the times an event may bear, in any order
  QueueMax,      \* size of a subscriber's queue (2000 in the code)
  MaxEvents,     \* bound on the events
  MaxMounts,     \* bound on the times the tail is opened
  MaxBreaks      \* bound on the connections that break

ASSUME LiveEventsAssumption ==
  /\ Remote \subseteq Writers /\ NoStream \notin Streams /\ Times \subseteq Nat
  /\ QueueMax \in Nat \ {0} /\ MaxEvents \in Nat /\ MaxMounts \in Nat /\ MaxBreaks \in Nat

VARIABLES
  events,    \* live_events in the order of their commits: writer, time and seq
  writer,    \* what each writer is doing
  stream,    \* each request: free, open, left by its client, or failing
  queue,     \* the subscriber queue of each request
  page,      \* the browser: what is mounted, its EventSource, the bounds
  tail       \* LiveTail: fetch, seen, shown, and whether something escaped it

live == <<events, writer, stream, queue, page, tail>>

LiveEvent == [by : Writers, at : Times, seq : Nat]
Subscribed == {"open", "left", "failing"}
Components == {"bar", "tail"}
Silent == [at |-> "idle"]
Closed == [fetch |-> "no", read |-> <<>>, seen |-> {}, shown |-> <<>>, gap |-> FALSE]

LiveInit ==
  /\ events = <<>> /\ writer = [w \in Writers |-> Silent]
  /\ stream = [s \in Streams |-> "free"] /\ queue = [s \in Streams |-> <<>>]
  /\ page = [mounted |-> {}, source |-> NoStream, mounts |-> 0, breaks |-> 0]
  /\ tail = Closed

--------------------------------------------------------------------------------
(* Ingest                                                                      *)

Listening(w) == IF w \in Remote THEN {} ELSE {s \in Streams : stream[s] \in Subscribed}

(* The number after the largest one that is committed is read in autocommit:  *)
(* the transaction of the insert begins after it.                              *)
IsNextSeq(n) ==
  /\ \A i \in DOMAIN events : events[i].seq < n
  /\ n # 1 => \E i \in DOMAIN events : events[i].seq = n - 1

Inserting == {w \in Writers : writer[w].at = "insert"}

Draw(w) ==
  /\ writer[w] = Silent /\ Len(events) + Cardinality(Inserting) < MaxEvents
  /\ \E n \in 1..(Len(events) + 1) :
       IsNextSeq(n) /\ writer' = [writer EXCEPT ![w] = [at |-> "insert", seq |-> n]]
  /\ UNCHANGED <<events, stream, queue, page, tail>>

Insert(w) ==
  /\ writer[w].at = "insert"
  /\ \E at \in Times : events' = Append(events, [by |-> w, at |-> at, seq |-> writer[w].seq])
  /\ writer' = [writer EXCEPT ![w] = [at |-> "publish", id |-> Len(events) + 1]]
  /\ UNCHANGED <<stream, queue, page, tail>>

(* The database is locked, or the writer ends before its commit.               *)
InsertFails(w) ==
  /\ writer[w].at = "insert"
  /\ writer' = [writer EXCEPT ![w] = Silent]
  /\ UNCHANGED <<events, stream, queue, page, tail>>

(* A writer with nobody left to offer its event to returns.                    *)
Offering(w, id, to) == [writer EXCEPT ![w] = IF to = {} THEN Silent
                                          ELSE [at |-> "offer", id |-> id, to |-> to]]
Publish(w) ==
  /\ writer[w].at = "publish"
  /\ writer' = Offering(w, writer[w].id, Listening(w))
  /\ UNCHANGED <<events, stream, queue, page, tail>>

Room(s) == stream[s] \notin Subscribed \/ Len(queue[s]) < QueueMax
Put(w, s) ==
  /\ writer' = Offering(w, writer[w].id, writer[w].to \ {s})
  /\ queue' = IF stream[s] \in Subscribed THEN [queue EXCEPT ![s] = Append(@, writer[w].id)] ELSE queue
Escaped(s) == tail' = [tail EXCEPT !.gap = @ \/ s = page.source]

\* Variant: a put that waits for room.
OfferBlocking(w, s) ==
  /\ writer[w].at = "offer" /\ s \in writer[w].to /\ Room(s)
  /\ Put(w, s)
  /\ UNCHANGED <<events, stream, page, tail>>

Offer(w, s) ==
  /\ writer[w].at = "offer" /\ s \in writer[w].to
  /\ IF Room(s) THEN Put(w, s)
     ELSE /\ writer' = [writer EXCEPT ![w] = [at |-> "full", id |-> writer[w].id, to |-> writer[w].to, on |-> s]]
          /\ UNCHANGED queue
  /\ UNCHANGED <<events, stream, page, tail>>

(* The oldest message goes, even when a reader has made room meanwhile.        *)
DropOldest(w) ==
  /\ writer[w].at = "full"
  /\ writer' = [writer EXCEPT ![w].at = "again"]
  /\ LET s == writer[w].on IN
     IF queue[s] = <<>> THEN UNCHANGED <<queue, tail>>
     ELSE queue' = [queue EXCEPT ![s] = Tail(@)] /\ Escaped(s)
  /\ UNCHANGED <<events, stream, page>>

(* The second attempt fails when another publisher took the room.              *)
OfferAgain(w) ==
  /\ writer[w].at = "again"
  /\ LET s == writer[w].on IN
     IF Room(s) THEN Put(w, s) /\ UNCHANGED tail
     ELSE /\ writer' = Offering(w, writer[w].id, writer[w].to \ {s})
          /\ Escaped(s) /\ UNCHANGED queue
  /\ UNCHANGED <<events, stream, page>>

Broadcast(w) ==
  \/ Publish(w) \/ DropOldest(w) \/ OfferAgain(w)
  \/ \E s \in Streams : Offer(w, s)

--------------------------------------------------------------------------------
(* The browser                                                                 *)

Left(s) == IF s = NoStream THEN stream ELSE [stream EXCEPT ![s] = "left"]

(* The first component that is mounted opens the EventSource, the last one     *)
(* closes it.  A tail asks for the rows and shows nothing yet.                 *)
Mount(c) ==
  /\ c \notin page.mounted
  /\ c = "tail" => page.mounts < MaxMounts
  /\ page' = [page EXCEPT !.mounted = @ \cup {c}, !.mounts = IF c = "tail" THEN @ + 1 ELSE @]
  /\ tail' = IF c = "tail" THEN [Closed EXCEPT !.fetch = "asked"] ELSE tail
  /\ UNCHANGED <<events, writer, stream, queue>>

Unmount(c) ==
  /\ c \in page.mounted
  /\ LET last == page.mounted = {c} IN
     /\ page' = [page EXCEPT !.mounted = @ \ {c}, !.source = IF last THEN NoStream ELSE @]
     /\ stream' = IF last THEN Left(page.source) ELSE stream
  /\ tail' = IF c = "tail" THEN Closed ELSE tail
  /\ UNCHANGED <<events, writer, queue>>

(* The server takes the request of an EventSource that has none: a new queue.  *)
Connect(s) ==
  /\ page.mounted # {} /\ page.source = NoStream /\ stream[s] = "free"
  /\ \A w \in Writers : writer[w].at \in {"offer", "full", "again"} => s \notin writer[w].to
  /\ stream' = [stream EXCEPT ![s] = "open"]
  /\ page' = [page EXCEPT !.source = s]
  /\ UNCHANGED <<events, writer, queue, tail>>

(* The EventSource reconnects by itself; the tail does not ask again.          *)
Break ==
  /\ page.source # NoStream /\ page.breaks < MaxBreaks
  /\ stream' = Left(page.source) /\ Escaped(page.source)
  /\ page' = [page EXCEPT !.source = NoStream, !.breaks = @ + 1]
  /\ UNCHANGED <<events, writer, queue>>

Before(e, f) == e.at < f.at \/ (e.at = f.at /\ e.seq < f.seq)

(* The rows by time, then by seq; equal ones come in any order.                *)
ByTime(rows) == \A i, j \in DOMAIN rows : i < j => ~ Before(events[rows[j]], events[rows[i]])

FetchRead ==
  /\ tail.fetch = "asked"
  /\ \E rows \in Bijection(DOMAIN events, DOMAIN events) :
       /\ ByTime(rows)
       /\ tail' = [tail EXCEPT !.fetch = "read", !.read = rows, !.gap = @ \/ page.source = NoStream]
  /\ UNCHANGED <<events, writer, stream, queue, page>>

\* Variant: what the stream brought first is kept instead of what was fetched.
FetchReturnKeeps ==
  /\ tail.fetch = "read"
  /\ tail' = [tail EXCEPT !.fetch = "done", !.seen = @ \cup Range(tail.read), !.read = <<>>,
                          !.shown = IF @ = <<>> THEN tail.read ELSE @]
  /\ UNCHANGED <<events, writer, stream, queue, page>>

(* The answer replaces what the stream has brought, which stays in seen.       *)
FetchReturn ==
  /\ tail.fetch = "read"
  /\ tail' = [tail EXCEPT !.fetch = "done", !.seen = @ \cup Range(tail.read), !.read = <<>>,
                          !.shown = tail.read,
                          !.gap = @ \/ ~ (Range(tail.shown) \subseteq Range(tail.read))]
  /\ UNCHANGED <<events, writer, stream, queue, page>>

FetchFails ==
  /\ tail.fetch \in {"asked", "read"}
  /\ tail' = [tail EXCEPT !.fetch = "failed", !.read = <<>>]
  /\ UNCHANGED <<events, writer, stream, queue, page>>

--------------------------------------------------------------------------------
(* The stream's thread in the server                                           *)

Deliver(s) ==
  /\ stream[s] = "open" /\ queue[s] # <<>>
  /\ queue' = [queue EXCEPT ![s] = Tail(@)]
  /\ LET id == Head(queue[s]) IN
     tail' = IF "tail" \notin page.mounted \/ id \in tail.seen THEN tail
             ELSE [tail EXCEPT !.seen = @ \cup {id}, !.shown = Append(@, id)]
  /\ UNCHANGED <<events, writer, stream, page>>

(* An event, or after 15 s a ping, is written to a client that has gone: the   *)
(* socket may take it once, then the write fails and the stream unsubscribes.  *)
WriteTaken(s) ==
  /\ stream[s] = "left"
  /\ stream' = [stream EXCEPT ![s] = "failing"]
  /\ queue' = [queue EXCEPT ![s] = IF @ = <<>> THEN @ ELSE Tail(@)]
  /\ UNCHANGED <<events, writer, page, tail>>

WriteFails(s) ==
  /\ stream[s] \in {"left", "failing"}
  /\ stream' = [stream EXCEPT ![s] = "free"] /\ queue' = [queue EXCEPT ![s] = <<>>]
  /\ UNCHANGED <<events, writer, page, tail>>

WriteToLeft(s) == WriteTaken(s) \/ WriteFails(s)

LiveNext ==
  \/ \E w \in Writers : Draw(w) \/ Insert(w) \/ InsertFails(w) \/ Broadcast(w)
  \/ \E c \in Components : Mount(c) \/ Unmount(c)
  \/ \E s \in Streams : Connect(s) \/ Deliver(s) \/ WriteToLeft(s)
  \/ Break \/ FetchRead \/ FetchReturn \/ FetchFails

(* A publisher that has work is scheduled, and a write to a closed socket ends *)
(* by itself.  A write to a client that is there may take for ever, and        *)
(* nothing is asked of the browser.                                            *)
LiveSafeSpec == LiveInit /\ [][LiveNext]_live
LiveFairness ==
  /\ \A w \in Writers : WF_live(Insert(w) \/ Broadcast(w))
  /\ \A s \in Streams : WF_live(WriteToLeft(s))

\* The threads of the server may be exchanged where no fairness is asked.
WritersAlike == Permutations(Writers \ Remote)

--------------------------------------------------------------------------------
(* Properties                                                                  *)

(* Every variable has its shape, no queue outgrows its bound, and the page has *)
(* an open stream exactly when it has a source, one it alone reads.            *)
LiveTypes ==
  /\ events \in Seq(LiveEvent)
  /\ \A w \in Writers : writer[w].at \in {"idle", "insert", "publish", "offer", "full", "again"}
  /\ stream \in [Streams -> Subscribed \cup {"free"}]
  /\ \A s \in Streams : /\ queue[s] \in Seq(DOMAIN events) /\ Len(queue[s]) <= QueueMax
                        /\ stream[s] \notin Subscribed => queue[s] = <<>>
                        /\ stream[s] = "open" <=> s = page.source
  /\ page.mounted \subseteq Components /\ (page.mounted = {} => page.source = NoStream)
  /\ tail.fetch \in {"no", "asked", "read", "done", "failed"}
  /\ tail.seen \subseteq DOMAIN events /\ Range(tail.shown) \subseteq tail.seen

(* What the tail shows is the run: no event twice; the events of each writer in*)
(* the order they were written, save one that bears an earlier time than the   *)
(* event it comes before; and, when all is quiet, every event of the server's  *)
(* own writers - provided that the stream was open when the rows were read and *)
(* has not broken, no queue overflowed and nothing was delivered between the   *)
(* reading of the rows and their arrival (tail.gap).  This rests on an event   *)
(* being published after its commit, on the set of ids seen, and on a writer's *)
(* seq being drawn after its last commit: times have seconds, and seq decides. *)
TailTellsTheRun ==
  /\ LiveTypes
  /\ \A i, j \in DOMAIN tail.shown : i < j =>
       LET e == tail.shown[i]  f == tail.shown[j] IN
       /\ e # f
       /\ events[e].by = events[f].by /\ f < e => events[e].at < events[f].at
  /\ (/\ tail.fetch = "done" /\ ~ tail.gap /\ queue[page.source] = <<>>
      /\ \A w \in Writers : writer[w] = Silent)
     => \A i \in DOMAIN events : events[i].by \notin Remote => i \in Range(tail.shown)

(* A publisher is never held up by a client that does not read: whatever the   *)
(* queues and the other publishers do, every ingest returns; and a stream whose*)
(* client has gone gives its queue back, events or no events.                  *)
IngestReturns ==
  /\ \A w \in Writers : writer[w] # Silent ~> writer[w] = Silent
  /\ \A s \in Streams : stream[s] = "left" ~> stream[s] = "free"
================================================================================
