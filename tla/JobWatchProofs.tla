--------------------------- MODULE JobWatchProofs ---------------------------
(***************************************************************************)
(* Theorems about the stream of a job's events, for a log of any length,   *)
(* pages of any size and any number of attempts and broken connections.    *)
(*                                                                         *)
(* What a client has not seen rests on the log having no gap: it gives up  *)
(* its oldest event and no other, so what a page leaves out is later than  *)
(* what it has.  What a client shows rests on a terminal job staying as it *)
(* is: each place that tells of an end tells the one the job has.          *)
(***************************************************************************)
EXTENDS JobWatch, SequenceTheorems, FiniteSetTheorems, TLAPS

Status == {"queued", "running"} \cup Terminal
EventType == {"state", "progress", "retry_scheduled", "cancel_requested"} \cup Terminal
Event == [id : Int, type : EventType, progress : Int]

(* The row, and a log of the latest events without a gap.                  *)
RowOK ==
  job \in [status : Status, progress : Int, attempt : Int, cancelAsked : BOOLEAN]
NoGap ==
  /\ appended \in Nat
  /\ log \in Seq(Event)
  /\ Len(log) \in 1..appended
  /\ \A i \in 1..Len(log) : log[i].id = appended - Len(log) + i

(* The stream, and what it knows of the job.                               *)
StreamOK ==
  /\ stream \in [state : {"none", "open", "ended"}, cursor : Int, polled : BOOLEAN,
                 terminal : BOOLEAN]
  /\ 0 <= stream.cursor /\ stream.cursor <= appended
  /\ stream.terminal => Over

WatchInv == RowOK /\ NoGap /\ StreamOK /\ NothingIsSkipped /\ EndIsTold
                /\ (stream.state = "ended" => Over)

-----------------------------------------------------------------------------
(* Appending to the log leaves no gap, and its new event is the last.      *)
LEMMA AppendLeavesNoGap ==
  ASSUME NoGap, NEW type \in EventType, NEW progress \in Int, Append1(type, progress)
  PROVE  /\ NoGap' /\ appended' = appended + 1
         /\ \A i \in 1..Len(log') : log'[i].id <= appended =>
              \E k \in 1..Len(log) : log[k].id = log'[i].id
         /\ \A i \in 1..Len(log') : \/ log'[i].type = type
                                     \/ \E k \in 1..Len(log) : log[k] = log'[i]
<1> DEFINE e == [id |-> appended + 1, type |-> type, progress |-> progress]
           kept == Kept(log)
<1>1. e \in Event /\ e.id = appended + 1 /\ e.type = type
  BY DEF NoGap, Event
<1>2. /\ kept \in Seq(Event)
      /\ Len(kept) \in 0..appended
      /\ \A i \in 1..Len(kept) : /\ kept[i].id = appended - Len(kept) + i
                                 /\ \E k \in 1..Len(log) : log[k] = kept[i]
  <2>1. CASE Len(log) >= MaxEvents
    <3>1. kept = Tail(log) /\ log # <<>>
      BY <2>1 DEF Kept, NoGap
    <3>2. /\ kept \in Seq(Event) /\ Len(kept) = Len(log) - 1
          /\ \A i \in 1..Len(kept) : kept[i] = log[i + 1]
      BY <3>1, HeadTailProperties DEF NoGap
    <3> QED
      BY <3>2 DEF NoGap
  <2>2. CASE ~(Len(log) >= MaxEvents)
    <3>1. kept = log
      BY <2>2 DEF Kept
    <3> QED
      BY <3>1 DEF NoGap
  <2> QED
    BY <2>1, <2>2
<1>3. log' = Append(kept, e) /\ appended' = appended + 1
  BY DEF Append1
<1> HIDE DEF e, kept
<1>4. /\ log' \in Seq(Event) /\ Len(log') = Len(kept) + 1
      /\ \A i \in 1..Len(kept) : log'[i] = kept[i]
      /\ log'[Len(kept) + 1] = e
  BY <1>1, <1>2, <1>3, AppendProperties
<1>5. \A i \in 1..Len(log') : log'[i].id = appended' - Len(log') + i
  <2> SUFFICES ASSUME NEW i \in 1..Len(log') PROVE log'[i].id = appended' - Len(log') + i
    OBVIOUS
  <2>1. CASE i = Len(kept) + 1
    BY <2>1, <1>1, <1>2, <1>3, <1>4 DEF NoGap
  <2>2. CASE i \in 1..Len(kept)
    BY <2>2, <1>2, <1>3, <1>4 DEF NoGap
  <2> QED
    BY <2>1, <2>2, <1>2, <1>4
<1>6. NoGap'
  BY <1>2, <1>3, <1>4, <1>5 DEF NoGap
<1>7. \A i \in 1..Len(log') : log'[i].id <= appended =>
        \E k \in 1..Len(log) : log[k].id = log'[i].id
  <2> SUFFICES ASSUME NEW i \in 1..Len(log'), log'[i].id <= appended
               PROVE  \E k \in 1..Len(log) : log[k].id = log'[i].id
    OBVIOUS
  <2>1. i # Len(kept) + 1
    BY <1>1, <1>4 DEF NoGap
  <2>2. i \in 1..Len(kept)
    BY <2>1, <1>2, <1>4
  <2> QED
    BY <2>2, <1>2, <1>4
<1>8. ASSUME NEW i \in 1..Len(log')
      PROVE  log'[i].type = type \/ \E k \in 1..Len(log) : log[k] = log'[i]
  <2>1. CASE i = Len(kept) + 1
    BY <2>1, <1>1, <1>4
  <2>2. CASE i \in 1..Len(kept)
    BY <2>2, <1>2, <1>4
  <2> QED
    BY <2>1, <2>2, <1>2, <1>4
<1> QED
  BY <1>3, <1>6, <1>7, <1>8

(* A page is what comes next after the cursor: a page that is empty leaves *)
(* nothing, and one that is not is in order, of events of the log, and     *)
(* ends before the first event it leaves out.                              *)
NextPage(cursor, page) ==
  /\ page \in Seq(Event)
  /\ page = <<>> => appended <= cursor
  /\ page # <<>> =>
       /\ page[Len(page)].id \in Int
       /\ cursor < page[Len(page)].id /\ page[Len(page)].id <= appended
       /\ \A i \in 1..Len(log) :
            cursor < log[i].id /\ log[i].id <= page[Len(page)].id =>
              \E k \in DOMAIN page : page[k].id = log[i].id
  /\ \A k \in 1..Len(page) : /\ cursor < page[k].id
                             /\ \E i \in 1..Len(log) : page[k] = log[i]
  /\ \A k, m \in 1..Len(page) : k < m => page[k].id < page[m].id

LEMMA PageIsNext ==
  ASSUME NoGap, NEW cursor \in Int, NEW page, page = EventsAfter(cursor)
  PROVE  NextPage(cursor, page)
<1> DEFINE first == appended - Len(log)
           seen == Cardinality({i \in DOMAIN log : log[i].id <= cursor})
           last == IF Len(log) - seen < PageSize THEN Len(log) ELSE seen + PageSize
<1>1. seen \in 0..Len(log) /\ \A i \in 1..Len(log) : log[i].id <= cursor <=> i <= seen
  <2> DEFINE Seen == {i \in DOMAIN log : log[i].id <= cursor}
             gone == cursor - first
  <2>1. \A i \in 1..Len(log) : log[i].id <= cursor <=> i <= gone
    BY DEF NoGap
  <2>2. DOMAIN log = 1..Len(log) /\ Len(log) \in Nat /\ gone \in Int
    BY DEF NoGap
  <2>3. seen = Cardinality(Seen) /\ Seen = {i \in 1..Len(log) : log[i].id <= cursor}
    BY <2>2
  <2> HIDE DEF seen, gone
  <2>4. Seen = {i \in 1..Len(log) : i <= gone}
    BY <2>1, <2>3
  <2> HIDE DEF Seen
  <2>5. ASSUME NEW n \in 0..Len(log), \A i \in 1..Len(log) : i <= gone <=> i <= n
        PROVE  seen = n
    <3>1. Seen = 1..n
      <4>1. \A i \in 1..Len(log) : i \in Seen <=> i <= n
        BY <2>4, <2>5
      <4>2. Seen \subseteq 1..Len(log) /\ 1..n \subseteq 1..Len(log) /\ n \in Nat
        BY <2>2, <2>4
      <4>3. \A i \in 1..Len(log) : i \in 1..n <=> i <= n
        BY <2>2, <4>2
      <4> QED
        BY <4>1, <4>2, <4>3
    <3>2. Cardinality(1..n) = n
      BY <2>2, FS_Interval
    <3> QED
      BY <3>1, <3>2, <2>3
  <2>6. CASE gone < 0
    <3>1. seen = 0
      BY <2>2, <2>5, <2>6
    <3> QED
      BY <3>1, <2>1, <2>2, <2>6
  <2>7. CASE gone > Len(log)
    <3>1. seen = Len(log)
      BY <2>2, <2>5, <2>7
    <3> QED
      BY <3>1, <2>1, <2>2, <2>7
  <2>8. CASE gone \in 0..Len(log)
    <3>1. seen = gone
      BY <2>5, <2>8
    <3> QED
      BY <3>1, <2>1, <2>8
  <2> QED
    BY <2>2, <2>6, <2>7, <2>8
<1>2. page = SubSeq(log, seen + 1, last)
  BY DEF EventsAfter
<1> HIDE DEF seen
<1>3. /\ last \in Int /\ seen <= last /\ last <= Len(log)
      /\ last = seen => seen = Len(log)
  BY <1>1, LogAssumption DEF NoGap
<1> HIDE DEF last
<1>4. Len(log) \in Nat /\ \A i \in (seen + 1)..last : log[i] \in Event
  BY <1>1, <1>3 DEF NoGap
<1>5. /\ page \in Seq(Event)
      /\ Len(page) = last - seen
      /\ \A k \in 1..(last - seen) : page[k] = log[seen + k]
  <2>1. seen + 1 \in Int /\ seen \in Int
    BY <1>1
  <2>2. /\ page \in Seq(Event)
        /\ Len(page) = IF seen + 1 <= last THEN last - (seen + 1) + 1 ELSE 0
        /\ \A k \in 1..(last - (seen + 1) + 1) : page[k] = log[seen + 1 + k - 1]
    BY <1>2, <1>3, <1>4, <2>1, SubSeqProperties
  <2> QED
    BY <2>1, <2>2, <1>3
<1>6. ASSUME page = <<>> PROVE appended <= cursor
  <2>1. last = seen
    BY <1>1, <1>3, <1>5, <1>6
  <2>2. log[Len(log)].id = appended /\ Len(log) \in 1..Len(log)
    BY DEF NoGap
  <2> QED
    BY <2>1, <2>2, <1>1, <1>3
<1>7. ASSUME page # <<>>
      PROVE  /\ page[Len(page)].id \in Int
             /\ cursor < page[Len(page)].id /\ page[Len(page)].id <= appended
             /\ \A i \in 1..Len(log) :
                   cursor < log[i].id /\ log[i].id <= page[Len(page)].id =>
                     \E k \in DOMAIN page : page[k].id = log[i].id
  <2>1. last > seen
    BY <1>1, <1>3, <1>5, <1>7
  <2>2. page[Len(page)] = log[last] /\ last \in 1..Len(log)
    BY <2>1, <1>1, <1>3, <1>5
  <2>3. log[last].id = first + last
    BY <2>2 DEF NoGap
  <2>4. /\ page[Len(page)].id \in Int
        /\ cursor < page[Len(page)].id /\ page[Len(page)].id <= appended
    BY <2>1, <2>2, <2>3, <1>1 DEF NoGap
  <2>5. ASSUME NEW i \in 1..Len(log), cursor < log[i].id, log[i].id <= page[Len(page)].id
        PROVE  \E k \in DOMAIN page : page[k].id = log[i].id
    <3>1. seen < i /\ i <= last
      BY <2>2, <2>3, <2>5, <1>1 DEF NoGap
    <3>2. i - seen \in 1..(last - seen) /\ seen + (i - seen) = i
      BY <3>1, <1>1, <1>3
    <3>3. page[i - seen] = log[i] /\ i - seen \in DOMAIN page
      BY <3>2, <1>5
    <3> QED
      BY <3>3
  <2> QED
    BY <2>4, <2>5
<1>8. \A k \in 1..Len(page) : /\ page[k].id = first + seen + k /\ cursor < page[k].id
                              /\ \E i \in 1..Len(log) : page[k] = log[i]
  <2> TAKE k \in 1..Len(page)
  <2>1. page[k] = log[seen + k] /\ seen + k \in 1..Len(log) /\ seen + k > seen
    BY <1>1, <1>3, <1>5
  <2>2. log[seen + k].id = first + (seen + k) /\ first \in Int /\ seen \in Int
    BY <2>1, <1>1 DEF NoGap
  <2>3. cursor < log[seen + k].id
    BY <2>1, <2>2, <1>1
  <2> QED
    BY <2>1, <2>2, <2>3
<1>9. ASSUME NEW k \in 1..Len(page), NEW m \in 1..Len(page), k < m
      PROVE  page[k].id < page[m].id
  <2>1. first \in Int /\ seen \in Int
    BY <1>1 DEF NoGap
  <2> QED
    BY <1>8, <1>9, <2>1
<1> QED
  BY <1>5, <1>6, <1>7, <1>8, <1>9 DEF NextPage

-----------------------------------------------------------------------------
LEMMA InitWatch == Init => WatchInv
<1> SUFFICES ASSUME Init PROVE WatchInv
  OBVIOUS
<1> DEFINE e == [id |-> 1, type |-> "state", progress |-> 0]
<1>1. e \in Event /\ e.id = 1
  BY DEF Event, EventType
<1>2. log = <<e>> /\ appended = 1
  BY DEF Init
<1> HIDE DEF e
<1>3. NoGap
  BY <1>1, <1>2 DEF NoGap
<1>4. stream = NoStream
  BY DEF Init
<1>5. NothingIsSkipped /\ EndIsTold /\ StreamOK /\ stream.state # "ended"
  BY <1>1, <1>2, <1>4 DEF NothingIsSkipped, EndIsTold, StreamOK, NoStream
<1> QED
  BY <1>3, <1>5 DEF Init, WatchInv, RowOK, Status

(* The job goes on: an event is appended, nothing else happens here.  A    *)
(* job that is over appends nothing.                                       *)
LEMMA JobStep ==
  ASSUME WatchInv, ~Over, RowOK', UNCHANGED <<stream, yielded>>,
         NEW type \in EventType, NEW progress \in Int, Append1(type, progress)
  PROVE  WatchInv'
<1>1. /\ NoGap' /\ appended' = appended + 1
      /\ \A i \in 1..Len(log') : log'[i].id <= appended =>
              \E k \in 1..Len(log) : log[k].id = log'[i].id
  BY AppendLeavesNoGap DEF WatchInv
<1>2. StreamOK' /\ ~stream'.terminal /\ stream'.state # "ended"
  BY <1>1 DEF WatchInv, StreamOK, NoGap
<1>3. ASSUME NEW i \in DOMAIN log', log'[i].id <= stream'.cursor
      PROVE  log'[i].id \in yielded'
  <2>1. DOMAIN log' = 1..Len(log') /\ log'[i].id \in Int
    <3>1. log' \in Seq(Event)
      BY <1>1 DEF NoGap
    <3>2. DOMAIN log' = 1..Len(log') /\ log'[i] \in Event
      BY <3>1
    <3> QED
      BY <3>2 DEF Event
  <2>2. log'[i].id <= appended
    BY <1>3, <2>1 DEF WatchInv, StreamOK, NoGap
  <2>3. PICK k \in 1..Len(log) : log[k].id = log'[i].id
    BY <2>1, <2>2, <1>1
  <2> QED
    BY <1>3, <2>3 DEF WatchInv, NothingIsSkipped, NoGap
<1> QED
  BY <1>1, <1>2, <1>3 DEF WatchInv, NothingIsSkipped, EndIsTold

(* A step that leaves the job, the log and what was sent alone, and either *)
(* closes the stream or leaves it alone.                                   *)
LEMMA QuietStep ==
  ASSUME WatchInv, UNCHANGED <<job, log, appended, yielded>>,
         stream' = stream \/ stream' = NoStream
  PROVE  WatchInv'
<1>1. RowOK' /\ NoGap'
  BY DEF WatchInv, RowOK, NoGap
<1>2. CASE stream' = stream
  BY <1>1, <1>2 DEF WatchInv, StreamOK, NothingIsSkipped, EndIsTold, Over
<1>3. CASE stream' = NoStream
  <2>1. stream'.state = "none" /\ stream'.cursor = 0 /\ ~stream'.terminal
    BY <1>3 DEF NoStream
  <2>2. StreamOK'
    BY <1>3, <1>1 DEF StreamOK, NoStream, NoGap
  <2>3. NothingIsSkipped'
    BY <1>1, <2>1 DEF NothingIsSkipped, NoGap
  <2> QED
    BY <1>1, <2>1, <2>2, <2>3 DEF WatchInv, EndIsTold
<1> QED
  BY <1>2, <1>3

LEMMA PollStep ==
  ASSUME WatchInv, PollEvents PROVE WatchInv'
<1>0. PICK page : page = EventsAfter(stream.cursor)
  OBVIOUS
<1>1. /\ UNCHANGED <<job, log, appended>>
      /\ yielded' = yielded \cup {page[i].id : i \in DOMAIN page}
      /\ stream' = IF page = <<>> /\ stream.terminal
                   THEN [stream EXCEPT !.state = "ended"]
                   ELSE [stream EXCEPT !.polled = FALSE,
                           !.cursor = IF page = <<>> THEN @ ELSE page[Len(page)].id]
  BY <1>0 DEF PollEvents, Sent, server
<1>2. stream.cursor \in Int /\ stream.state = "open"
  BY DEF WatchInv, StreamOK, PollEvents
<1>3. /\ page \in Seq(Event)
      /\ page = <<>> => appended <= stream.cursor
      /\ page # <<>> =>
           /\ page[Len(page)].id \in Int
           /\ stream.cursor < page[Len(page)].id /\ page[Len(page)].id <= appended
           /\ \A i \in 1..Len(log) :
                stream.cursor < log[i].id /\ log[i].id <= page[Len(page)].id =>
                  \E k \in DOMAIN page : page[k].id = log[i].id
  <2>1. NextPage(stream.cursor, page)
    BY <1>0, <1>2, PageIsNext DEF WatchInv
  <2> QED
    BY <2>1 DEF NextPage
<1>4. RowOK' /\ NoGap'
  BY <1>1 DEF WatchInv, RowOK, NoGap
<1>5. CASE page = <<>>
  <2>1. /\ stream'.cursor = stream.cursor /\ stream'.terminal = stream.terminal
        /\ stream'.state = "ended" => stream.terminal
        /\ stream' \in [state : {"none", "open", "ended"}, cursor : Int, polled : BOOLEAN,
                        terminal : BOOLEAN]
    BY <1>1, <1>2, <1>5 DEF WatchInv, StreamOK
  <2>2. yielded \subseteq yielded'
    BY <1>1
  <2>3. log[Len(log)].id = appended /\ Len(log) \in DOMAIN log
    BY DEF WatchInv, NoGap
  <2>4. appended \in yielded
    BY <2>3, <1>3, <1>5 DEF WatchInv, NothingIsSkipped
  <2> QED
    BY <1>1, <1>4, <2>1, <2>2, <2>4 DEF WatchInv, StreamOK, NothingIsSkipped, EndIsTold, Over
<1>6. CASE page # <<>>
  <2>1. /\ stream'.cursor = page[Len(page)].id /\ stream'.terminal = stream.terminal
        /\ stream'.state = "open"
        /\ stream' \in [state : {"none", "open", "ended"}, cursor : Int, polled : BOOLEAN,
                        terminal : BOOLEAN]
    BY <1>1, <1>2, <1>3, <1>6 DEF WatchInv, StreamOK
  <2>2. StreamOK'
    BY <2>1, <1>1, <1>3, <1>6, <1>2 DEF WatchInv, StreamOK, Over
  <2>3. NothingIsSkipped'
    <3> SUFFICES ASSUME NEW i \in 1..Len(log), log[i].id <= stream'.cursor
                 PROVE  log[i].id \in yielded'
      BY <1>1 DEF NothingIsSkipped, WatchInv, NoGap
    <3>1. CASE log[i].id <= stream.cursor
      BY <3>1, <1>1 DEF WatchInv, NothingIsSkipped, NoGap
    <3>2. CASE stream.cursor < log[i].id
      BY <3>2, <2>1, <1>1, <1>3, <1>6
    <3> QED
      BY <3>1, <3>2, <1>2 DEF WatchInv, NoGap, Event
  <2> QED
    BY <1>4, <2>1, <2>2, <2>3 DEF WatchInv, EndIsTold
<1> QED
  BY <1>5, <1>6

LEMMA ConnectStep ==
  ASSUME WatchInv, Connect PROVE WatchInv'
<1>1. UNCHANGED <<job, log, appended>> /\ stream' = [NoStream EXCEPT !.state = "open"]
  BY DEF Connect, server
<1>2. stream'.state = "open" /\ stream'.cursor = 0 /\ ~stream'.terminal
  BY <1>1 DEF NoStream
<1>3. RowOK' /\ NoGap'
  BY <1>1 DEF WatchInv, RowOK, NoGap
<1>4. StreamOK'
  <2>1. stream' = [state |-> "open", cursor |-> 0, polled |-> FALSE, terminal |-> FALSE]
    BY <1>1 DEF NoStream
  <2>2. 0 <= appended'
    BY <1>3 DEF NoGap
  <2> QED
    BY <2>1, <2>2 DEF StreamOK
<1>5. NothingIsSkipped'
  BY <1>2, <1>3 DEF NothingIsSkipped, NoGap
<1> QED
  BY <1>2, <1>3, <1>4, <1>5 DEF WatchInv, EndIsTold

LEMMA PollJobStep ==
  ASSUME WatchInv, PollJob PROVE WatchInv'
<1>1. /\ UNCHANGED <<job, log, appended, yielded>>
      /\ stream' = [stream EXCEPT !.polled = TRUE, !.terminal = job.status \in Terminal]
      /\ stream.state = "open"
  BY DEF PollJob, server
<1>2. RowOK' /\ NoGap'
  BY <1>1 DEF WatchInv, RowOK, NoGap
<1>3. stream'.state = "open" /\ stream'.cursor = stream.cursor /\ (stream'.terminal <=> Over)
  BY <1>1 DEF WatchInv, StreamOK, Over
<1>4. NothingIsSkipped'
  BY <1>1, <1>3 DEF WatchInv, NothingIsSkipped
<1>5. Over \in BOOLEAN /\ Over' = Over
  BY <1>1 DEF Over
<1>6. StreamOK'
  BY <1>1, <1>3, <1>5 DEF WatchInv, StreamOK, Over
<1> QED
  BY <1>2, <1>3, <1>4, <1>5, <1>6 DEF WatchInv, EndIsTold

LEMMA RowStep ==
  ASSUME WatchInv,
         Claim \/ ReportProgress \/ CompleteJob \/ EndJob \/ CrashJob
           \/ (RequestCancel /\ job.status \in {"queued", "running"})
  PROVE  WatchInv'
<1>1. /\ RowOK' /\ ~Over /\ UNCHANGED <<stream, yielded>>
      /\ \E type \in EventType, progress \in Int : Append1(type, progress)
  <2> USE DEF WatchInv, RowOK, Over, Terminal, Status, EventType, Unwatched
  <2>0. /\ job = [status |-> job.status, progress |-> job.progress,
                  attempt |-> job.attempt, cancelAsked |-> job.cancelAsked]
        /\ job.progress \in Int /\ job.attempt \in Int /\ job.cancelAsked \in BOOLEAN
    OBVIOUS
  <2>1. CASE Claim
    <3>1. Append1("state", 0) /\ job.status = "queued"
      BY <2>1 DEF Claim
    <3>2. RowOK'
      <4>1. job' = [status |-> "running", progress |-> job.progress,
                      attempt |-> job.attempt + 1, cancelAsked |-> job.cancelAsked]
        BY <2>0, <2>1 DEF Claim
      <4> QED
        BY <4>1, <2>0
    <3>3. UNCHANGED <<stream, yielded>>
      BY <2>1 DEF Claim
    <3> QED
      BY <3>1, <3>2, <3>3
  <2>2. CASE ReportProgress
    <3>1. PICK p \in 0..1 :
            LET progress == IF p > job.progress THEN p ELSE job.progress
            IN  /\ job' = [job EXCEPT !.progress = progress]
                /\ Append1("progress", progress)
      BY <2>2 DEF ReportProgress
    <3> QED
      BY <2>2, <3>1 DEF ReportProgress
  <2>3. CASE CompleteJob
    <3>1. Append1("completed", 2) /\ job.status = "running"
      BY <2>3 DEF CompleteJob
    <3>2. RowOK'
      <4>1. job' = [status |-> "completed", progress |-> 2,
                      attempt |-> job.attempt, cancelAsked |-> job.cancelAsked]
        BY <2>0, <2>3 DEF CompleteJob
      <4> QED
        BY <4>1, <2>0
    <3>3. UNCHANGED <<stream, yielded>>
      BY <2>3 DEF CompleteJob
    <3> QED
      BY <3>1, <3>2, <3>3
  <2>4. CASE EndJob
    BY <2>4 DEF EndJob
  <2>5. CASE CrashJob
    <3>1. job.status = "running" /\ job.progress \in Int
      BY <2>5 DEF CrashJob
    <3>2. Append1("retry_scheduled", 0) \/ Append1("failed", job.progress)
      BY <2>5 DEF CrashJob
    <3>3. RowOK'
      <4>1. \/ job' = [status |-> "queued", progress |-> 0,
                        attempt |-> job.attempt, cancelAsked |-> job.cancelAsked]
            \/ job' = [job EXCEPT !.status = "failed"]
        BY <2>0, <2>5 DEF CrashJob
      <4> QED
        BY <4>1, <2>0
    <3>4. UNCHANGED <<stream, yielded>>
      BY <2>5 DEF CrashJob
    <3> QED
      BY <3>1, <3>2, <3>3, <3>4
  <2>6. CASE RequestCancel /\ job.status \in {"queued", "running"}
    BY <2>6 DEF RequestCancel
  <2> QED
    BY <2>1, <2>2, <2>3, <2>4, <2>5, <2>6
<1> QED
  BY <1>1, JobStep

LEMMA StepWatch == WatchInv /\ [Next]_vars => WatchInv'
<1> SUFFICES ASSUME WatchInv, [Next]_vars PROVE WatchInv'
  OBVIOUS
<1>1. CASE Claim \/ ReportProgress \/ CompleteJob \/ EndJob \/ CrashJob
  BY <1>1, RowStep
<1>2. CASE PollJob
  BY <1>2, PollJobStep
<1>3. CASE PollEvents
  BY <1>3, PollStep
<1>4. CASE Connect
  BY <1>4, ConnectStep
<1>5. CASE Break \/ StreamGone
  BY <1>5, QuietStep DEF Break, StreamGone, server
<1>6. CASE ReceiveEvent
  <2>1. UNCHANGED <<job, log, appended, yielded>> /\ (stream' = stream \/ stream' = NoStream)
    BY <1>6 DEF ReceiveEvent, server
  <2> QED
    BY <2>1, QuietStep
<1>7. CASE AnswerSnapshot \/ TakeSnapshot \/ LoseSnapshot \/ Refreshed \/ LoseRefresh
  BY <1>7, QuietStep DEF AnswerSnapshot, TakeSnapshot, LoseSnapshot, Refreshed, LoseRefresh, server
<1>8. CASE RequestCancel
  <2>1. CASE job.status \in {"queued", "running"}
    BY <1>8, <2>1, RowStep
  <2>2. CASE job.status \notin {"queued", "running"}
    <3>1. job' = job /\ UNCHANGED <<log, appended, stream, yielded>>
      BY <1>8, <2>2 DEF RequestCancel
    <3> QED
      BY <3>1, QuietStep
  <2> QED
    BY <2>1, <2>2
<1>9. CASE ReadAnswer
  BY <1>9, QuietStep DEF ReadAnswer, server
<1>10. CASE UNCHANGED vars
  BY <1>10, QuietStep DEF vars
<1> QED
  BY <1>1, <1>2, <1>3, <1>4, <1>5, <1>6, <1>7, <1>8, <1>9, <1>10 DEF Next, Serve, Listen

LEMMA WatchInvariant == Spec => []WatchInv
  BY InitWatch, StepWatch, PTL DEF Spec

(* Whatever a log of any length has given up, and however often the        *)
(* connection breaks, a stream never passes over an event it could still   *)
(* have read.                                                              *)
THEOREM NothingIsSkippedHolds == Spec => []NothingIsSkipped
<1>1. WatchInv => NothingIsSkipped
  BY DEF WatchInv
<1> QED
  BY <1>1, WatchInvariant, PTL

(* A stream that ends has sent the last event of the job: no page is empty *)
(* while an event is missing, and no event follows the end of the job.     *)
THEOREM EndIsToldHolds == Spec => []EndIsTold
<1>1. WatchInv => EndIsTold
  BY DEF WatchInv
<1> QED
  BY <1>1, WatchInvariant, PTL
-----------------------------------------------------------------------------
(* The browser.                                                            *)

Connections == {"connecting", "open", "closed", "reconnecting"}
Answer == [status : Status \cup {"none"}, progress : Int]
BrowserOK ==
  /\ view \in [status : Status, progress : Int, connection : Connections]
  /\ watch \in [state : {"connect", "listening", "asking", "answered", "over", "stuck"},
                lastProgress : Int, snapshot : Answer]
  /\ watch.state = "answered" => watch.snapshot.status \in Status
  /\ cancel \in [state : {"none", "sent", "read"}, answer : Answer]
  /\ cancel.state = "sent" => cancel.answer.status \in Status
  /\ wire \in Seq(Event)

(* Whatever tells of an end, at any place and of any age, tells of the one *)
(* that the job has: no end is told before it is there, and none is undone.*)
TheEnd(status) == status \in Terminal => status = job.status
EndsAreTrue ==
  /\ \A i \in DOMAIN log : TheEnd(log[i].type)
  /\ \A i \in DOMAIN wire : TheEnd(wire[i].type)
  /\ TheEnd(watch.snapshot.status) /\ TheEnd(cancel.answer.status)
  /\ refresh # {} => job.status = "completed"
  /\ ShownEndIsTrue
BrowserInv == BrowserOK /\ EndsAreTrue /\ NothingIsRepeated

LEMMA InitBrowser == Init => BrowserInv
<1> SUFFICES ASSUME Init PROVE BrowserInv
  OBVIOUS
<1>1. PICK e : e = [id |-> 1, type |-> "state", progress |-> 0]
  OBVIOUS
<1>2. log = <<e>> /\ e.type = "state"
  BY <1>1 DEF Init
<1>3. wire = <<>> /\ refresh = {}
  BY DEF Init
<1>4. BrowserOK
  BY <1>3 DEF Init, BrowserOK, Connections, Answer, Status, NoAnswer
<1>5. watch.snapshot.status = "none" /\ cancel.answer.status = "none" /\ view.status = "queued"
  BY DEF Init, NoAnswer
<1>6. \A i \in DOMAIN log : log[i].type = "state"
  BY <1>2
<1>7. EndsAreTrue
  BY <1>3, <1>5, <1>6 DEF EndsAreTrue, TheEnd, Terminal, ShownEndIsTrue
<1> QED
  BY <1>3, <1>4, <1>7 DEF BrowserInv, NothingIsRepeated

(* The job goes on, and only its last event can be its end.                *)
LEMMA JobEnds ==
  ASSUME WatchInv, BrowserInv, ~Over, UNCHANGED <<wire, watch, view, refresh>>,
         NEW type \in EventType, NEW progress \in Int, Append1(type, progress),
         type \in Terminal => type = job'.status,
         cancel'.answer.status \in Terminal =>
           cancel'.answer.status = job'.status \/ cancel'.answer.status = cancel.answer.status
  PROVE  EndsAreTrue'
<1>1. \A i \in 1..Len(log') : \/ log'[i].type = type
                              \/ \E k \in 1..Len(log) : log[k] = log'[i]
  BY AppendLeavesNoGap DEF WatchInv
<1>2. DOMAIN log' = 1..Len(log') /\ DOMAIN log = 1..Len(log)
  BY AppendLeavesNoGap DEF WatchInv, NoGap
<1>3. \A status : TheEnd(status) => status \notin Terminal
  BY DEF TheEnd, Over
<1>4. /\ \A i \in DOMAIN log : log[i].type \notin Terminal
      /\ \A i \in DOMAIN wire : wire[i].type \notin Terminal
      /\ watch.snapshot.status \notin Terminal /\ cancel.answer.status \notin Terminal
      /\ refresh = {} /\ view.status \notin Terminal
  BY <1>3 DEF BrowserInv, EndsAreTrue, ShownEndIsTrue, TheEnd, Over, Terminal
<1>5. \A i \in DOMAIN log' : TheEnd(log[i].type)'
  BY <1>1, <1>2, <1>4 DEF TheEnd
<1> QED
  BY <1>4, <1>5 DEF EndsAreTrue, TheEnd, ShownEndIsTrue

LEMMA BrowserAtRow ==
  ASSUME WatchInv, BrowserInv,
         Claim \/ ReportProgress \/ CompleteJob \/ EndJob \/ CrashJob
           \/ (RequestCancel /\ job.status \in {"queued", "running"})
  PROVE  BrowserInv'
<1>1. UNCHANGED <<stream, wire, watch, view, refresh>> /\ ~Over
  BY DEF Claim, ReportProgress, CompleteJob, EndJob, CrashJob, RequestCancel, Unwatched, Over,
         Terminal
<1>2. /\ job = [status |-> job.status, progress |-> job.progress,
                attempt |-> job.attempt, cancelAsked |-> job.cancelAsked]
      /\ job.progress \in Int /\ job.attempt \in Int /\ job.cancelAsked \in BOOLEAN
  BY DEF WatchInv, RowOK
<1>3. /\ \E type \in EventType, progress \in Int :
           Append1(type, progress) /\ (type \in Terminal => type = job'.status)
      /\ cancel'.answer.status \in Terminal =>
           cancel'.answer.status = job'.status \/ cancel'.answer.status = cancel.answer.status
      /\ cancel' \in [state : {"none", "sent", "read"}, answer : Answer]
      /\ cancel'.state = "sent" => cancel'.answer.status \in Status
  <2> USE DEF EventType, Terminal
  <2>1. ASSUME UNCHANGED cancel
        PROVE  /\ cancel' \in [state : {"none", "sent", "read"}, answer : Answer]
               /\ cancel'.state = "sent" => cancel'.answer.status \in Status
               /\ cancel'.answer.status = cancel.answer.status
    BY <2>1 DEF BrowserInv, BrowserOK
  <2>2. CASE Claim
    <3>1. Append1("state", 0) /\ UNCHANGED cancel
      BY <2>2 DEF Claim
    <3> QED
      BY <2>1, <3>1
  <2>3. CASE ReportProgress
    <3>1. \E progress \in Int : Append1("progress", progress)
      BY <2>3, <1>2 DEF ReportProgress
    <3>2. UNCHANGED cancel
      BY <2>3 DEF ReportProgress
    <3> QED
      BY <2>1, <3>1, <3>2
  <2>4. CASE CompleteJob
    <3>1. Append1("completed", 2) /\ UNCHANGED cancel /\ job'.status = "completed"
      BY <1>2, <2>4 DEF CompleteJob
    <3> QED
      BY <2>1, <3>1
  <2>5. CASE EndJob
    <3>1. PICK s \in {"failed", "cancelled"} :
            job' = [job EXCEPT !.status = s] /\ Append1(s, job.progress)
      BY <2>5 DEF EndJob
    <3>2. job'.status = s
      BY <1>2, <3>1
    <3>3. UNCHANGED cancel
      BY <2>5 DEF EndJob
    <3> QED
      BY <1>2, <2>1, <3>1, <3>2, <3>3
  <2>6. CASE CrashJob
    <3>1. \/ Append1("retry_scheduled", 0)
          \/ Append1("failed", job.progress) /\ job' = [job EXCEPT !.status = "failed"]
      BY <2>6 DEF CrashJob
    <3>2. UNCHANGED cancel
      BY <2>6 DEF CrashJob
    <3>3. CASE Append1("retry_scheduled", 0)
      BY <2>1, <3>2, <3>3
    <3>4. CASE Append1("failed", job.progress) /\ job' = [job EXCEPT !.status = "failed"]
      <4>1. job'.status = "failed"
        BY <1>2, <3>4
      <4> QED
        BY <1>2, <2>1, <3>2, <3>4, <4>1
    <3> QED
      BY <3>1, <3>3, <3>4
  <2>7. CASE RequestCancel /\ job.status = "queued"
    <3>1. /\ job' = [job EXCEPT !.status = "cancelled", !.cancelAsked = TRUE]
          /\ Append1("cancelled", job.progress)
          /\ cancel' = [state |-> "sent", answer |-> Snapshot(job')]
      BY <2>7 DEF RequestCancel
    <3>2. job' = [status |-> "cancelled", progress |-> job.progress,
                  attempt |-> job.attempt, cancelAsked |-> TRUE]
      BY <1>2, <3>1
    <3>3. cancel' = [state |-> "sent",
                     answer |-> [status |-> "cancelled", progress |-> job.progress]]
      BY <3>1, <3>2 DEF Snapshot
    <3> QED
      BY <1>2, <3>1, <3>2, <3>3 DEF Answer, Status
  <2>8. CASE RequestCancel /\ job.status = "running"
    <3>1. /\ job' = [job EXCEPT !.cancelAsked = TRUE]
          /\ Append1("cancel_requested", job.progress)
          /\ cancel' = [state |-> "sent", answer |-> Snapshot(job')]
      BY <2>8 DEF RequestCancel
    <3>2. job' = [status |-> "running", progress |-> job.progress,
                  attempt |-> job.attempt, cancelAsked |-> TRUE]
      BY <1>2, <2>8, <3>1
    <3>3. cancel' = [state |-> "sent",
                     answer |-> [status |-> "running", progress |-> job.progress]]
      BY <3>1, <3>2 DEF Snapshot
    <3> QED
      BY <1>2, <3>1, <3>2, <3>3 DEF Answer, Status
  <2> QED
    BY <2>2, <2>3, <2>4, <2>5, <2>6, <2>7, <2>8
<1>4. EndsAreTrue'
  BY <1>1, <1>3, JobEnds
<1>5. BrowserOK' /\ NothingIsRepeated'
  BY <1>1, <1>3 DEF BrowserInv, BrowserOK, NothingIsRepeated
<1> QED
  BY <1>4, <1>5 DEF BrowserInv

(* A page goes behind what is on the wire.                                 *)
LEMMA BrowserAtPoll ==
  ASSUME WatchInv, BrowserInv, PollEvents PROVE BrowserInv'
<1>1. PICK page : page = EventsAfter(stream.cursor)
  OBVIOUS
<1>2. /\ UNCHANGED <<job, log, appended, watch, view, refresh, cancel>>
      /\ wire' = wire \o page
      /\ stream' = IF page = <<>> /\ stream.terminal
                   THEN [stream EXCEPT !.state = "ended"]
                   ELSE [stream EXCEPT !.polled = FALSE,
                           !.cursor = IF page = <<>> THEN @ ELSE page[Len(page)].id]
  BY <1>1 DEF PollEvents, Sent, server, client
<1>3. NextPage(stream.cursor, page)
  BY <1>1, PageIsNext DEF WatchInv, StreamOK
<1>4. /\ page \in Seq(Event) /\ wire \in Seq(Event) /\ stream.cursor \in Int
  BY <1>3 DEF NextPage, WatchInv, StreamOK, BrowserInv, BrowserOK
<1>5. /\ wire' \in Seq(Event) /\ Len(wire') = Len(wire) + Len(page)
      /\ Len(wire) \in Nat /\ Len(page) \in Nat /\ DOMAIN wire' = 1..Len(wire')
      /\ \A i \in 1..Len(wire) : wire'[i] = wire[i]
      /\ \A k \in 1..Len(page) : wire'[Len(wire) + k] = page[k]
  BY <1>2, <1>4, ConcatProperties
<1>6. \A i \in 1..Len(wire') :
        \/ i \in 1..Len(wire) /\ wire'[i] = wire[i]
        \/ \E k \in 1..Len(page) : i = Len(wire) + k /\ wire'[i] = page[k]
  <2> TAKE i \in 1..Len(wire')
  <2>1. CASE i <= Len(wire)
    BY <2>1, <1>5
  <2>2. CASE i > Len(wire)
    <3>1. i - Len(wire) \in 1..Len(page) /\ i = Len(wire) + (i - Len(wire))
      BY <2>2, <1>5
    <3> QED
      BY <3>1, <1>5
  <2> QED
    BY <2>1, <2>2, <1>5
<1>7. /\ \A i \in 1..Len(wire) : wire[i].id <= stream.cursor /\ wire[i].id \in Int
      /\ \A i, j \in 1..Len(wire) : i < j => wire[i].id < wire[j].id
      /\ \A k \in 1..Len(page) : stream.cursor < page[k].id /\ page[k].id \in Int
      /\ \A k, m \in 1..Len(page) : k < m => page[k].id < page[m].id
  <2>1. \A i \in 1..Len(wire) : wire[i].id <= stream.cursor /\ wire[i].id \in Int
    <3>1. \A i \in 1..Len(wire) : wire[i] \in Event /\ i \in DOMAIN wire
      BY <1>4
    <3>2. \A e \in Event : e.id \in Int
      BY DEF Event
    <3> QED
      BY <3>1, <3>2 DEF BrowserInv, NothingIsRepeated
  <2>2. \A i, j \in 1..Len(wire) : i < j => wire[i].id < wire[j].id
    BY <1>4 DEF BrowserInv, NothingIsRepeated
  <2>3. \A k \in 1..Len(page) : page[k].id \in Int
    <3>1. \A k \in 1..Len(page) : page[k] \in Event
      BY <1>4
    <3> QED
      BY <3>1 DEF Event
  <2> QED
    BY <2>1, <2>2, <2>3, <1>3 DEF NextPage
<1>8. \A i, j \in DOMAIN wire' : i < j => wire'[i].id < wire'[j].id
  <2> SUFFICES ASSUME NEW i \in 1..Len(wire'), NEW j \in 1..Len(wire'), i < j
               PROVE  wire'[i].id < wire'[j].id
    BY <1>5
  <2>1. CASE j \in 1..Len(wire)
    <3>1. i \in 1..Len(wire)
      BY <2>1, <1>5
    <3> QED
      BY <2>1, <3>1, <1>5, <1>7
  <2>2. CASE j \notin 1..Len(wire)
    <3>1. PICK m \in 1..Len(page) : j = Len(wire) + m /\ wire'[j] = page[m]
      BY <2>2, <1>6
    <3>2. CASE i \in 1..Len(wire)
      <4>1. wire'[i] = wire[i]
        BY <3>2, <1>5
      <4> QED
        BY <3>1, <3>2, <4>1, <1>4, <1>7
    <3>3. CASE i \notin 1..Len(wire)
      <4>1. PICK k \in 1..Len(page) : i = Len(wire) + k /\ wire'[i] = page[k]
        BY <3>3, <1>6
      <4>2. k < m
        BY <3>1, <4>1, <1>5
      <4> QED
        BY <3>1, <4>1, <4>2, <1>7
    <3> QED
      BY <3>2, <3>3
  <2> QED
    BY <2>1, <2>2
<1>9. \A i \in DOMAIN wire' : wire'[i].id <= stream'.cursor
  <2>1. stream'.cursor = IF page = <<>> THEN stream.cursor ELSE page[Len(page)].id
    BY <1>2 DEF WatchInv, StreamOK
  <2>2. ASSUME NEW k \in 1..Len(page)
        PROVE  /\ page # <<>> /\ Len(page) \in 1..Len(page)
               /\ page[k].id <= page[Len(page)].id
    <3>1. page # <<>> /\ Len(page) \in 1..Len(page)
      BY <1>4, <1>5
    <3>2. CASE k = Len(page)
      BY <3>1, <3>2, <1>7
    <3>3. CASE k # Len(page)
      BY <3>1, <3>3, <1>5, <1>7
    <3> QED
      BY <3>1, <3>2, <3>3
  <2>3. page # <<>> => Len(page) \in 1..Len(page)
    BY <1>4, <1>5
  <2>4. ASSUME NEW i \in 1..Len(wire'), NEW k \in 1..Len(page), wire'[i] = page[k]
        PROVE  wire'[i].id <= stream'.cursor
    BY <2>1, <2>2, <2>4
  <2>5. ASSUME NEW i \in 1..Len(wire), wire'[i] = wire[i] PROVE wire'[i].id <= stream'.cursor
    <3>1. wire[i].id <= stream.cursor /\ wire[i].id \in Int
      BY <1>7
    <3>2. CASE page = <<>>
      BY <2>1, <2>5, <3>1, <3>2
    <3>3. CASE page # <<>>
      <4>1. stream.cursor < page[Len(page)].id /\ page[Len(page)].id \in Int
        BY <2>3, <3>3, <1>7
      <4> QED
        BY <2>1, <2>5, <3>1, <3>3, <4>1, <1>4
    <3> QED
      BY <3>2, <3>3
  <2> QED
    BY <1>5, <1>6, <2>4, <2>5
<1>10. \A i \in DOMAIN wire' : TheEnd(wire'[i].type)
  <2>1. \A k \in 1..Len(page) : \E i \in DOMAIN log : page[k] = log[i]
    BY <1>3 DEF NextPage, WatchInv, NoGap
  <2>2. \A k \in 1..Len(page) : TheEnd(page[k].type)
    BY <2>1 DEF BrowserInv, EndsAreTrue
  <2>3. \A i \in 1..Len(wire) : TheEnd(wire[i].type)
    BY <1>4 DEF BrowserInv, EndsAreTrue
  <2> QED
    BY <2>2, <2>3, <1>5, <1>6
<1>11. BrowserOK' /\ EndsAreTrue'
  BY <1>2, <1>5, <1>10 DEF BrowserInv, BrowserOK, EndsAreTrue, TheEnd, ShownEndIsTrue
<1> QED
  BY <1>8, <1>9, <1>11 DEF BrowserInv, NothingIsRepeated

(* What is read from the wire goes, the rest stays in its order.           *)
LEMMA WireShrinks ==
  ASSUME BrowserInv, UNCHANGED job, wire # <<>>, wire' = Tail(wire) \/ wire' = <<>>,
         UNCHANGED stream \/ wire' = <<>>
  PROVE  /\ wire' \in Seq(Event) /\ NothingIsRepeated'
         /\ \A i \in DOMAIN wire' : TheEnd(wire'[i].type)
<1>1. wire \in Seq(Event)
  BY DEF BrowserInv, BrowserOK
<1>2. CASE wire' = <<>>
  BY <1>2 DEF NothingIsRepeated
<1>3. CASE wire' = Tail(wire) /\ UNCHANGED stream
  <2>1. /\ wire' \in Seq(Event) /\ Len(wire') = Len(wire) - 1 /\ Len(wire) \in Nat
        /\ DOMAIN wire' = 1..Len(wire') /\ DOMAIN wire = 1..Len(wire)
        /\ \A i \in 1..Len(wire') : wire'[i] = wire[i + 1]
    BY <1>1, <1>3, HeadTailProperties
  <2>2. \A i \in 1..Len(wire') : i + 1 \in DOMAIN wire /\ wire'[i] = wire[i + 1]
    BY <2>1
  <2>3. /\ \A i, j \in DOMAIN wire : i < j => wire[i].id < wire[j].id
        /\ \A i \in DOMAIN wire : wire[i].id <= stream.cursor /\ TheEnd(wire[i].type)
    BY DEF BrowserInv, NothingIsRepeated, EndsAreTrue
  <2>4. \A i, j \in DOMAIN wire' : i < j => wire'[i].id < wire'[j].id
    <3> SUFFICES ASSUME NEW i \in 1..Len(wire'), NEW j \in 1..Len(wire'), i < j
                 PROVE  wire'[i].id < wire'[j].id
      BY <2>1
    <3>1. i + 1 < j + 1
      BY <2>1
    <3> QED
      BY <2>2, <2>3, <3>1
  <2> QED
    BY <1>3, <2>1, <2>2, <2>3, <2>4 DEF NothingIsRepeated
<1> QED
  BY <1>2, <1>3

(* What an event does to the view.                                         *)
LEMMA AppliedIsTrue ==
  ASSUME BrowserInv, NEW type \in EventType, NEW progress \in Int, TheEnd(type),
         NEW event, event.type = type, event.progress = progress
  PROVE  /\ Applied(view, event) \in
              [status : Status, progress : Int, connection : Connections]
         /\ TheEnd(Applied(view, event).status)
<1>1. /\ view \in [status : Status, progress : Int, connection : Connections]
      /\ TheEnd(view.status)
  BY DEF BrowserInv, BrowserOK, EndsAreTrue, ShownEndIsTrue, TheEnd
<1>2. CASE progress < view.progress
  BY <1>1, <1>2 DEF Applied
<1>3. CASE ~(progress < view.progress) /\ type \in Terminal
  <2>1. Applied(view, event) = [status |-> type, progress |-> progress, connection |-> "closed"]
    BY <1>3 DEF Applied
  <2> QED
    BY <1>3, <2>1 DEF Status, Connections
<1>4. CASE ~(progress < view.progress) /\ type \notin Terminal
  <2>1. Applied(view, event) = [status |-> view.status, progress |-> progress,
                                connection |-> view.connection]
    BY <1>1, <1>4 DEF Applied
  <2> QED
    BY <1>1, <2>1
<1> QED
  BY <1>2, <1>3, <1>4

LEMMA BrowserAtEvent ==
  ASSUME BrowserInv, ReceiveEvent PROVE BrowserInv'
<1>1. PICK event : event = Head(wire)
  OBVIOUS
<1>2. /\ UNCHANGED <<job, log, cancel>> /\ wire # <<>>
      /\ wire' = Tail(wire) \/ wire' = <<>>
      /\ UNCHANGED stream \/ wire' = <<>>
  BY DEF ReceiveEvent, server
<1>3. event = wire[1] /\ 1 \in DOMAIN wire /\ event \in Event
  BY <1>1, <1>2 DEF BrowserInv, BrowserOK
<1>4. event.type \in EventType /\ event.progress \in Int /\ TheEnd(event.type)
  BY <1>3 DEF Event, BrowserInv, EndsAreTrue
<1>5. /\ wire' \in Seq(Event) /\ NothingIsRepeated'
      /\ \A i \in DOMAIN wire' : TheEnd(wire'[i].type)
  BY <1>2, WireShrinks
<1>6. /\ view \in [status : Status, progress : Int, connection : Connections]
      /\ TheEnd(view.status) /\ (refresh # {} => job.status = "completed")
      /\ watch \in [state : {"connect", "listening", "asking", "answered", "over", "stuck"},
                    lastProgress : Int, snapshot : Answer]
      /\ watch.state = "listening"
  BY DEF BrowserInv, BrowserOK, EndsAreTrue, ShownEndIsTrue, TheEnd, ReceiveEvent
<1>7. /\ view' \in [status : Status, progress : Int, connection : Connections]
      /\ TheEnd(view'.status) /\ (refresh' # {} => job.status = "completed")
      /\ watch' \in [state : {"connect", "listening", "asking", "answered", "over", "stuck"},
                     lastProgress : Int, snapshot : Answer]
      /\ watch'.state # "answered" /\ watch'.snapshot = watch.snapshot
  <2>1. CASE event.type \notin Watched \/ ~Read(event)
    <3>1. UNCHANGED <<watch, view, refresh>>
      BY <1>1, <2>1 DEF ReceiveEvent
    <3> QED
      BY <1>6, <3>1
  <2>2. CASE event.type \in Watched /\ Read(event)
    <3>1. /\ watch' = [watch EXCEPT !.state = IF event.type \in Terminal THEN "over" ELSE @,
                                   !.lastProgress = event.progress]
          /\ view' = IF event.type = "completed"
                     THEN [view EXCEPT !.connection = "closed"] ELSE Applied(view, event)
          /\ refresh' = IF event.type = "completed" THEN refresh \cup {"event"} ELSE refresh
      BY <1>1, <2>2 DEF ReceiveEvent
    <3>2. /\ watch' \in [state : {"connect", "listening", "asking", "answered", "over", "stuck"},
                         lastProgress : Int, snapshot : Answer]
          /\ watch'.state # "answered" /\ watch'.snapshot = watch.snapshot
      BY <1>4, <1>6, <3>1
    <3>3. CASE event.type = "completed"
      <4>1. job.status = "completed"
        BY <1>4, <3>3 DEF TheEnd, Terminal
      <4>2. view' = [status |-> view.status, progress |-> view.progress, connection |-> "closed"]
        BY <1>6, <3>1, <3>3
      <4> QED
        BY <1>6, <3>2, <4>1, <4>2 DEF Connections
    <3>4. CASE event.type # "completed"
      <4>1. view' = Applied(view, event) /\ refresh' = refresh
        BY <3>1, <3>4
      <4> QED
        BY <1>4, <1>6, <3>2, <4>1, AppliedIsTrue
    <3> QED
      BY <3>3, <3>4
  <2> QED
    BY <2>1, <2>2
<1>8. BrowserOK'
  BY <1>2, <1>5, <1>7 DEF BrowserInv, BrowserOK
<1>9. EndsAreTrue'
  BY <1>2, <1>5, <1>7 DEF BrowserInv, EndsAreTrue, ShownEndIsTrue, TheEnd
<1> QED
  BY <1>5, <1>8, <1>9 DEF BrowserInv

(* The rest of what the browser does.                                      *)
LEMMA BrowserListens ==
  ASSUME WatchInv, BrowserInv,
         PollJob \/ Break \/ Connect \/ StreamGone \/ AnswerSnapshot \/ TakeSnapshot
           \/ LoseSnapshot \/ Refreshed \/ LoseRefresh \/ ReadAnswer
  PROVE  BrowserInv'
<1>1. UNCHANGED <<job, log>>
  BY DEF PollJob, Break, Connect, StreamGone, AnswerSnapshot, TakeSnapshot, LoseSnapshot,
         Refreshed, LoseRefresh, ReadAnswer, server
<1>2. /\ wire' \in Seq(Event) /\ NothingIsRepeated'
      /\ \A i \in DOMAIN wire' : TheEnd(wire'[i].type)
  <2>1. CASE wire' = <<>>
    BY <2>1 DEF NothingIsRepeated
  <2>2. CASE UNCHANGED wire /\ stream'.cursor = stream.cursor
    BY <2>2 DEF BrowserInv, BrowserOK, EndsAreTrue, NothingIsRepeated
  <2>3. CASE PollJob
    <3>1. stream' = [stream EXCEPT !.polled = TRUE, !.terminal = job.status \in Terminal]
      BY <2>3 DEF PollJob
    <3> QED
      BY <2>2, <2>3, <3>1 DEF PollJob, WatchInv, StreamOK
  <2>4. CASE Break \/ Connect \/ StreamGone
    BY <2>1, <2>4 DEF Break, Connect, StreamGone
  <2>5. CASE AnswerSnapshot \/ TakeSnapshot \/ LoseSnapshot \/ Refreshed \/ LoseRefresh
               \/ ReadAnswer
    BY <2>2, <2>5 DEF AnswerSnapshot, TakeSnapshot, LoseSnapshot, Refreshed, LoseRefresh,
                      ReadAnswer
  <2> QED
    BY <2>3, <2>4, <2>5
<1> DEFINE Views == [status : Status, progress : Int, connection : Connections]
           Watches == [state : {"connect", "listening", "asking", "answered", "over", "stuck"},
                       lastProgress : Int, snapshot : Answer]
           Cancels == [state : {"none", "sent", "read"}, answer : Answer]
<1>3. /\ view \in Views /\ watch \in Watches /\ cancel \in Cancels
      /\ watch.state = "answered" => watch.snapshot.status \in Status
      /\ cancel.state = "sent" => cancel.answer.status \in Status
      /\ TheEnd(view.status) /\ TheEnd(watch.snapshot.status) /\ TheEnd(cancel.answer.status)
      /\ refresh # {} => job.status = "completed"
  BY DEF BrowserInv, BrowserOK, EndsAreTrue, ShownEndIsTrue, TheEnd
<1>4. job.status \in Status /\ job.progress \in Int
  BY DEF WatchInv, RowOK
<1>5. ASSUME view' \in Views, watch' \in Watches, cancel' \in Cancels,
             watch'.state = "answered" => watch'.snapshot.status \in Status,
             cancel'.state = "sent" => cancel'.answer.status \in Status,
             TheEnd(view'.status), TheEnd(watch'.snapshot.status), TheEnd(cancel'.answer.status),
             refresh' # {} => job.status = "completed"
      PROVE  BrowserInv'
  <2>1. BrowserOK'
    BY <1>2, <1>5 DEF BrowserOK
  <2>2. EndsAreTrue'
    BY <1>1, <1>2, <1>5 DEF BrowserInv, EndsAreTrue, ShownEndIsTrue, TheEnd
  <2> QED
    BY <1>2, <2>1, <2>2 DEF BrowserInv
<1> HIDE DEF Views, Watches, Cancels
<1>6. ASSUME NEW connection \in Connections, view' = [view EXCEPT !.connection = connection]
      PROVE  view' \in Views /\ view'.status = view.status
  BY <1>3, <1>6 DEF Views
<1>7. CASE PollJob \/ Break
  <2>1. UNCHANGED <<watch, view, refresh, cancel>>
    BY <1>7 DEF PollJob, Break, client
  <2> QED
    BY <1>3, <1>5, <2>1
<1>8. CASE Connect
  <2>1. /\ view' = [view EXCEPT !.connection = "open"]
        /\ watch' = [watch EXCEPT !.state = "listening"] /\ UNCHANGED <<refresh, cancel>>
    BY <1>8 DEF Connect
  <2>2. watch' \in Watches /\ watch'.state = "listening" /\ watch'.snapshot = watch.snapshot
    BY <1>3, <2>1 DEF Watches
  <2>3. view' \in Views /\ view'.status = view.status
    BY <1>6, <2>1 DEF Connections
  <2> QED
    BY <1>3, <1>5, <2>1, <2>2, <2>3
<1>9. CASE StreamGone
  <2>1. /\ view' = [view EXCEPT !.connection = "reconnecting"]
        /\ watch' = [watch EXCEPT !.state = "asking"] /\ UNCHANGED <<refresh, cancel>>
    BY <1>9 DEF StreamGone
  <2>2. watch' \in Watches /\ watch'.state = "asking" /\ watch'.snapshot = watch.snapshot
    BY <1>3, <2>1 DEF Watches
  <2>3. view' \in Views /\ view'.status = view.status
    BY <1>6, <2>1 DEF Connections
  <2> QED
    BY <1>3, <1>5, <2>1, <2>2, <2>3
<1>10. CASE AnswerSnapshot
  <2>1. /\ watch' = [watch EXCEPT !.state = "answered", !.snapshot = Snapshot(job)]
        /\ UNCHANGED <<view, refresh, cancel>>
    BY <1>10 DEF AnswerSnapshot
  <2>2. Snapshot(job) \in Answer /\ Snapshot(job).status = job.status
    BY <1>4 DEF Snapshot, Answer
  <2>3. watch' \in Watches /\ watch'.snapshot.status = job.status
    BY <1>3, <2>1, <2>2 DEF Watches
  <2> QED
    BY <1>3, <1>4, <1>5, <2>1, <2>3 DEF TheEnd
<1>11. CASE TakeSnapshot
  <2>1. PICK snapshot : snapshot = watch.snapshot
    OBVIOUS
  <2>2. /\ snapshot.status \in Status /\ snapshot.progress \in Int /\ TheEnd(snapshot.status)
        /\ snapshot \in Answer
    BY <1>3, <1>11, <2>1 DEF TakeSnapshot, Watches, Answer
  <2>3. /\ \/ /\ snapshot.status = "completed" /\ UNCHANGED view
              /\ refresh' = refresh \cup {"snapshot"}
           \/ /\ view' = [status |-> snapshot.status, progress |-> snapshot.progress,
                          connection |-> Shown(snapshot.status)]
              /\ UNCHANGED refresh
        /\ watch' = Reconnecting(snapshot) /\ UNCHANGED cancel
    BY <1>11, <2>1 DEF TakeSnapshot
  <2>4. watch' \in Watches /\ watch'.state # "answered" /\ watch'.snapshot = watch.snapshot
    <3>1. \/ watch' = [watch EXCEPT !.state = "over"]
          \/ watch' = [watch EXCEPT !.state = "connect", !.lastProgress = snapshot.progress]
      BY <2>3 DEF Reconnecting
    <3> QED
      BY <1>3, <2>2, <3>1 DEF Watches
  <2>5. CASE snapshot.status = "completed" /\ UNCHANGED view
    <3>1. job.status = "completed"
      BY <2>2, <2>5 DEF TheEnd, Terminal
    <3> QED
      BY <1>3, <1>5, <2>3, <2>4, <2>5, <3>1
  <2>6. CASE /\ view' = [status |-> snapshot.status, progress |-> snapshot.progress,
                         connection |-> Shown(snapshot.status)]
             /\ UNCHANGED refresh
    <3>1. view' \in Views /\ view'.status = snapshot.status
      BY <2>2, <2>6 DEF Views, Shown, Connections
    <3> QED
      BY <1>3, <1>5, <2>2, <2>3, <2>4, <2>6, <3>1
  <2> QED
    BY <2>3, <2>5, <2>6
<1>12. CASE LoseSnapshot
  <2>1. watch' = [watch EXCEPT !.state = "stuck"] /\ UNCHANGED <<view, refresh, cancel>>
    BY <1>12 DEF LoseSnapshot
  <2>2. watch' \in Watches /\ watch'.state = "stuck" /\ watch'.snapshot = watch.snapshot
    BY <1>3, <2>1 DEF Watches
  <2> QED
    BY <1>3, <1>5, <2>1, <2>2
<1>13. CASE Refreshed
  <2>1. PICK from \in refresh :
          /\ refresh' = refresh \ {from}
          /\ view' = IF from = "event"
                     THEN Applied(view, [type |-> "completed", progress |-> 2])
                     ELSE [status |-> "completed", progress |-> 2, connection |-> "closed"]
    BY <1>13 DEF Refreshed
  <2>2. job.status = "completed" /\ TheEnd("completed") /\ UNCHANGED <<watch, cancel>>
    BY <1>3, <1>13, <2>1 DEF Refreshed, TheEnd
  <2>3. PICK event : event = [type |-> "completed", progress |-> 2]
    OBVIOUS
  <2>4. /\ Applied(view, event) \in Views /\ TheEnd(Applied(view, event).status)
    BY <2>2, <2>3, AppliedIsTrue DEF Views, EventType, Terminal
  <2>5. view' \in Views /\ TheEnd(view'.status)
    <3>1. CASE from = "event"
      BY <2>1, <2>3, <2>4, <3>1
    <3>2. CASE from # "event"
      <4>1. view' = [status |-> "completed", progress |-> 2, connection |-> "closed"]
        BY <2>1, <3>2
      <4> QED
        BY <2>2, <4>1 DEF Views, Status, Connections, Terminal
    <3> QED
      BY <3>1, <3>2
  <2> QED
    BY <1>3, <1>5, <2>2, <2>5
<1>14. CASE LoseRefresh
  <2>1. UNCHANGED <<watch, view, cancel>> /\ (refresh' # {} => refresh # {})
    BY <1>14 DEF LoseRefresh
  <2> QED
    BY <1>3, <1>5, <2>1
<1>15. CASE ReadAnswer
  <2>1. /\ view' = SetJob(cancel.answer) /\ cancel' = [cancel EXCEPT !.state = "read"]
        /\ UNCHANGED <<watch, refresh>> /\ cancel.state = "sent"
    BY <1>15 DEF ReadAnswer
  <2>2. cancel' \in Cancels /\ cancel'.state = "read" /\ cancel'.answer = cancel.answer
    BY <1>3, <2>1 DEF Cancels
  <2>3. cancel.answer.status \in Status /\ cancel.answer.progress \in Int
    BY <1>3, <2>1 DEF Cancels, Answer
  <2>4. view' \in Views /\ view'.status = cancel.answer.status
    BY <2>1, <2>3 DEF SetJob, Views, Connections
  <2> QED
    BY <1>3, <1>5, <2>1, <2>2, <2>4
<1> QED
  BY <1>7, <1>8, <1>9, <1>10, <1>11, <1>12, <1>13, <1>14, <1>15

LEMMA StepBrowser == WatchInv /\ BrowserInv /\ [Next]_vars => BrowserInv'
<1> SUFFICES ASSUME WatchInv, BrowserInv, [Next]_vars PROVE BrowserInv'
  OBVIOUS
<1>1. CASE UNCHANGED vars \/ (RequestCancel /\ job.status \notin {"queued", "running"})
  <2>1. CASE UNCHANGED vars
    BY <2>1 DEF vars, BrowserInv, BrowserOK, EndsAreTrue, TheEnd, ShownEndIsTrue,
                NothingIsRepeated
  <2>2. CASE RequestCancel /\ job.status \notin {"queued", "running"}
    <3>1. /\ cancel' = [state |-> "sent", answer |-> Snapshot(job)]
          /\ UNCHANGED <<job, log, stream, wire, watch, view, refresh>>
      BY <2>2 DEF RequestCancel
    <3>2. job.status \in Status /\ job.progress \in Int
      BY DEF WatchInv, RowOK
    <3>3. /\ cancel' \in [state : {"none", "sent", "read"}, answer : Answer]
          /\ cancel'.answer.status = job.status
      BY <3>1, <3>2 DEF Snapshot, Answer
    <3> QED
      BY <3>1, <3>2, <3>3
         DEF BrowserInv, BrowserOK, EndsAreTrue, TheEnd, ShownEndIsTrue, NothingIsRepeated
  <2> QED
    BY <1>1, <2>1, <2>2
<1>2. CASE Claim \/ ReportProgress \/ CompleteJob \/ EndJob \/ CrashJob
             \/ (RequestCancel /\ job.status \in {"queued", "running"})
  BY <1>2, BrowserAtRow
<1>3. CASE PollEvents
  BY <1>3, BrowserAtPoll
<1>4. CASE ReceiveEvent
  BY <1>4, BrowserAtEvent
<1>5. CASE PollJob \/ Break \/ Connect \/ StreamGone \/ AnswerSnapshot \/ TakeSnapshot
             \/ LoseSnapshot \/ Refreshed \/ LoseRefresh \/ ReadAnswer
  BY <1>5, BrowserListens
<1> QED
  BY <1>1, <1>2, <1>3, <1>4, <1>5 DEF Next, Serve, Listen

LEMMA BrowserInvariant == Spec => []BrowserInv
  BY InitBrowser, StepBrowser, WatchInvariant, PTL DEF Spec

(* A connection sends every event that the log still has once and in the   *)
(* order of the ids, and passes over none.                                 *)
THEOREM NeitherSkippedNorRepeatedHolds == Spec => []NeitherSkippedNorRepeated
<1>1. WatchInv /\ BrowserInv => NeitherSkippedNorRepeated
  BY DEF WatchInv, BrowserInv, NeitherSkippedNorRepeated
<1> QED
  BY <1>1, WatchInvariant, BrowserInvariant, PTL

(* The workspace never shows an end that the job did not have, however old *)
(* the event, the snapshot, the refresh or the answer that tells it.       *)
THEOREM ShownEndIsTrueHolds == Spec => []ShownEndIsTrue
<1>1. BrowserInv => ShownEndIsTrue
  BY DEF BrowserInv, EndsAreTrue
<1> QED
  BY <1>1, BrowserInvariant, PTL
=============================================================================
