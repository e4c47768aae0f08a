-------------------------------- MODULE Progress --------------------------------
(***************************************************************************)
(* The figures of one download: what yt-dlp's progress lines do to the      *)
(* streams, to the video and audio groups and to the bytes and percentage  *)
(* of the record, up to its end and its restoration after a restart.       *)
(*                                                                         *)
(* A line that names its format has an accumulator of its own (Identified);*)
(* one that does not is assigned to groups by codecs and file name         *)
(* (Legacy).  Percentages are whole numbers, rounded down: 100 stays exact.*)
(* Byte counts are signed integers of a fixed width, as int64 is.          *)
(***************************************************************************)
EXTENDS Integers, FiniteSets, Functions

CONSTANTS
  Formats,   \* media_id:format_id of the formats that yt-dlp downloads
  MaxInt,    \* the largest byte count: math.MaxInt64
  Lines      \* bound: the progress lines an instance explores

Kinds == {"video", "audio"}

NoFormat == "none"   \* the line names no format
Missing == -1        \* the line does not count the bytes, or the fragments

(* What the code reads of a line, of which Lines are some: the format and the file
   name, the codecs, the status, and how much there is, and is done. *)
Line ==
  [format: Formats \cup {NoFormat}, codecs: SUBSET Kinds, name: Kinds \cup {"other"},
   status: {"downloading", "finished", "error", "other"},
   total: 0 .. MaxInt, done: 0 .. MaxInt \cup {Missing}, part: 0 .. 100 \cup {Missing}]

VARIABLES
  named,     \* yt-dlp names the format of every line; an old one, of none
  expected,  \* the kinds the options ask for: ExpectedStreams
  status,    \* DownloadProgress.Status; "active" is what precedes the first line
  streams,   \* DownloadProgress.Streams
  group,     \* VideoProgress and AudioProgress
  combined,  \* their Combined, which lines without a format set and read together
  figures,   \* TotalBytes, DownloadedBytes and Progress of the record
  running    \* Worker.Run has not made its last update

vars == <<named, expected, status, streams, group, combined, figures, running>>

--------------------------------------------------------------------------------
Terminal == {"completed", "failed", "cancelled"}

Bytes == -(MaxInt + 1) .. MaxInt

Figures ==
  [status: {"not_requested", "waiting", "downloading"} \cup Terminal, total: Bytes,
   done: Bytes, percent: Int]

Stream ==
  [kind: Kinds \cup {"combined"}, status: {"downloading"} \cup Terminal,
   total: 0 .. MaxInt, done: 0 .. MaxInt, percent: 0 .. 100]

TypeOK ==
  /\ named \in BOOLEAN
  /\ expected \in (SUBSET Kinds) \ {{}}
  /\ status \in {"active", "downloading", "processing"} \cup Terminal
  /\ DOMAIN streams \subseteq Formats /\ \A i \in DOMAIN streams : streams[i] \in Stream
  /\ group \in [Kinds -> Figures]
  /\ combined \in BOOLEAN
  /\ figures \in [total: Bytes, done: Bytes, percent: Int]
  /\ running \in BOOLEAN

(* NewDownloadProgress. *)
Init ==
  /\ named \in BOOLEAN
  /\ expected \in (SUBSET Kinds) \ {{}}
  /\ status = "active"
  /\ streams = << >>
  /\ group = [k \in Kinds |-> [status |-> IF k \in expected THEN "waiting" ELSE "not_requested",
                               total |-> 0, done |-> 0, percent |-> 0]]
  /\ combined = FALSE
  /\ figures = [total |-> 0, done |-> 0, percent |-> 0]
  /\ running = TRUE

--------------------------------------------------------------------------------
(* Arithmetic *)

(* Sums of int64 wrap around. *)
Wrap(n) == ((n + MaxInt + 1) % (2 * (MaxInt + 1))) - (MaxInt + 1)

AtMost100(p) == IF p > 100 THEN 100 ELSE p

(* clamp, which every snapshot applies. *)
Clamp(p) == IF p < 0 THEN 0 ELSE AtMost100(p)

Share(done, total) == AtMost100((100 * done) \div total)

Total(f, S) == Wrap(SumFunctionOnSet([i \in DOMAIN f |-> f[i].total], S))
Received(f, S) == Wrap(SumFunctionOnSet([i \in DOMAIN f |-> f[i].done], S))
Percents(f, S) == SumFunctionOnSet([i \in DOMAIN f |-> f[i].percent], S)
Known(f, S) == \A i \in S : f[i].total > 0

(* The streams that carry a kind. *)
Members(ss, k) == {i \in DOMAIN ss : ss[i].kind \in {k, "combined"}}

--------------------------------------------------------------------------------
(* RecalculateAggregate *)

OfSeenStreams(ss) ==
  LET all == DOMAIN ss
      total == Total(ss, all)
      done == Received(ss, all)
  IN  [total |-> total, done |-> done,
       percent |-> Clamp(IF Known(ss, all) /\ total > 0 THEN Share(done, total)
                         ELSE Percents(ss, all) \div Cardinality(all))]

(* With streams: a kind that is expected and not seen yet counts as one more
   stream, of unknown size and at nought. *)
OfStreams(ss) ==
  LET all == DOMAIN ss
      unseen == {k \in expected : Members(ss, k) = {}}
      total == Total(ss, all)
      done == Received(ss, all)
  IN  [total |-> total, done |-> done,
       percent |-> Clamp(IF unseen = {} /\ Known(ss, all) /\ total > 0 THEN Share(done, total)
                         ELSE Percents(ss, all) \div (Cardinality(all) + Cardinality(unseen)))]

(* Without: the expected groups, of which one speaks for both if combined. *)
OfGroups(gs, comb) ==
  LET parts == IF expected = Kinds /\ comb THEN {"video"} ELSE expected
      total == Total(gs, parts)
      done == Received(gs, parts)
  IN  [total |-> total, done |-> done,
       percent |-> IF Known(gs, parts) /\ total > 0 THEN Share(done, total)
                   ELSE Percents(gs, parts) \div Cardinality(parts)]

Aggregate(ss, gs, comb) == IF DOMAIN ss # {} THEN OfStreams(ss) ELSE OfGroups(gs, comb)

--------------------------------------------------------------------------------
(* handleIdentifiedStream *)

Kind(l) ==
  IF Cardinality(l.codecs) = 1 THEN CHOOSE k \in Kinds : k \in l.codecs
  ELSE IF l.codecs = {} /\ expected = {"audio"} THEN "audio"
  ELSE "combined"

(* The stream of the line's format, which keeps what a line does not count. *)
StreamAfter(l) ==
  LET old == IF l.format \in DOMAIN streams THEN streams[l.format]
             ELSE [total |-> 0, done |-> 0, percent |-> 0]
      total == IF l.total > 0 THEN l.total ELSE old.total
      done == IF l.done # Missing THEN l.done ELSE old.done
      sized == [kind |-> Kind(l), status |-> "downloading", total |-> total, done |-> done,
                percent |-> IF total > 0 THEN Share(done, total)
                            ELSE IF l.part # Missing THEN l.part ELSE old.percent]
  IN  IF l.status = "downloading" THEN sized
      ELSE [sized EXCEPT !.status = "completed", !.percent = 100,
                         !.total = IF total = 0 THEN done ELSE total,
                         !.done = IF l.done > 0 THEN done ELSE IF total = 0 THEN done ELSE total]

GroupOfLast(ss, k) ==
  LET ms == {i \in Members(ss, k) : ss[i].status # "completed"}
      is(s, p) == [status |-> s, total |-> Total(ss, ms), done |-> Received(ss, ms), percent |-> p]
  IN  IF k \notin expected THEN is("not_requested", 0)
      ELSE IF Members(ss, k) = {} THEN is("waiting", 0)
      ELSE IF ms = {} THEN is("completed", 100)
      ELSE is("downloading", Percents(ss, ms) \div Cardinality(ms))

(* A group is rebuilt from all the streams that carry its kind. *)
GroupOf(ss, k) ==
  LET ms == Members(ss, k)
      total == Total(ss, ms)
      done == Received(ss, ms)
      is(s, p) == [status |-> s, total |-> total, done |-> done, percent |-> p]
  IN  IF k \notin expected THEN is("not_requested", 0)
      ELSE IF ms = {} THEN is("waiting", 0)
      ELSE IF \A i \in ms : ss[i].status = "completed" THEN is("completed", 100)
      ELSE is("downloading", IF Known(ss, ms) /\ total > 0 THEN Share(done, total)
                             ELSE Percents(ss, ms) \div Cardinality(ms))

Identified(l) ==
  /\ running /\ status \notin Terminal
  /\ named /\ l.format # NoFormat /\ l.status \in {"downloading", "finished"}
  /\ streams' = [i \in DOMAIN streams \cup {l.format} |->
                   IF i = l.format THEN StreamAfter(l) ELSE streams[i]]
  /\ group' = [k \in Kinds |-> GroupOf(streams', k)]
  /\ status' = IF l.status = "finished" THEN "processing" ELSE "downloading"
  /\ figures' = Aggregate(streams', group', combined)
  /\ UNCHANGED <<named, expected, combined, running>>

--------------------------------------------------------------------------------
(* Lines without a format, and errors *)

(* activeStreams.  Something is always expected, which makes the last
   alternatives of the code unreachable. *)
Targets(l) ==
  IF expected = Kinds /\ l.codecs \in {{}, Kinds} THEN Kinds
  ELSE IF Cardinality(l.codecs) = 1 THEN l.codecs
  ELSE IF l.name # "other" THEN {l.name}
  ELSE expected

(* safeInt: what is missing counts as nought. *)
Done(l) == IF l.done = Missing THEN 0 ELSE l.done

LegacyDownloading(g, l) ==
  [g EXCEPT !.status = "downloading", !.total = l.total, !.done = Done(l),
            !.percent = IF l.total > 0 THEN Share(Done(l), l.total)
                        ELSE IF l.part # Missing THEN l.part ELSE 0]

LegacyFinished(g, l) ==
  LET last == IF l.total = 0 THEN Done(l) ELSE l.total
      total == IF last > 0 THEN last ELSE g.total
  IN  [g EXCEPT !.status = "completed", !.percent = 100, !.total = total,
                !.done = IF l.done > 0 THEN l.done ELSE IF total > 0 THEN total ELSE @]

Legacy(l) ==
  /\ running /\ status \notin Terminal
  /\ ~named /\ l.format = NoFormat /\ l.status \in {"downloading", "finished"}
  /\ group' = [k \in Kinds |->
                 IF k \notin Targets(l) THEN group[k]
                 ELSE IF l.status = "finished" THEN LegacyFinished(group[k], l)
                 ELSE LegacyDownloading(group[k], l)]
  /\ combined' = (Targets(l) = Kinds)
  /\ status' = IF l.status = "finished" THEN "processing" ELSE "downloading"
  /\ figures' = Aggregate(streams, group', combined')
  /\ UNCHANGED <<named, expected, streams, running>>

(* MarkIncompleteStreams. *)
StreamsMarked(s) ==
  [i \in DOMAIN streams |->
    IF streams[i].status = "completed" THEN streams[i] ELSE [streams[i] EXCEPT !.status = s]]

GroupsMarked(gs, s) ==
  [k \in Kinds |->
    IF k \in expected /\ gs[k].status # "completed" THEN [gs[k] EXCEPT !.status = s] ELSE gs[k]]

Mark(s) ==
  /\ streams' = StreamsMarked(s)
  /\ group' = GroupsMarked(group, s)

(* An error line ends the job while yt-dlp still runs; the groups it is
   assigned to fail whatever they were. *)
ErrorLine(l) ==
  /\ running /\ status \notin Terminal
  /\ l.status = "error"
  /\ status' = "failed"
  /\ combined' = (combined /\ Targets(l) = Kinds)
  /\ streams' = StreamsMarked("failed")
  /\ group' = GroupsMarked([k \in Kinds |-> IF k \in Targets(l)
                                             THEN [group[k] EXCEPT !.status = "failed"]
                                             ELSE group[k]], "failed")
  /\ UNCHANGED <<named, expected, figures, running>>

(* Any other status only undoes the combination of the groups. *)
OtherLine(l) ==
  /\ running /\ status \notin Terminal
  /\ l.status = "other"
  /\ combined' = (combined /\ Targets(l) = Kinds)
  /\ UNCHANGED <<named, expected, status, streams, group, figures, running>>

--------------------------------------------------------------------------------
(* Ends *)

EndUnmarked(s) ==
  /\ status \notin Terminal
  /\ status' = s
  /\ UNCHANGED <<named, expected, streams, group, combined, figures, running>>

(* HandleCancelDownload, cancelRecord, failCancelled and fail. *)
End(s) ==
  /\ status \notin Terminal
  /\ status' = s
  /\ Mark(s)
  /\ UNCHANGED <<named, expected, combined, figures, running>>

(* Worker.Run's last update after an earlier end, or with one of its own. *)
Unwind(s) ==
  /\ running
  /\ status \in {"failed", "cancelled"} => s = status
  /\ status' = s
  /\ Mark(s)
  /\ running' = FALSE
  /\ UNCHANGED <<named, expected, combined, figures>>

Completed(g) ==
  [g EXCEPT !.status = "completed", !.percent = 100,
            !.done = IF g.total > 0 THEN g.total ELSE @,
            !.total = IF g.total <= 0 /\ g.done > 0 THEN g.done ELSE @]

(* A clean exit: whatever the lines have shown, all of it is there. *)
Complete ==
  /\ running /\ status \notin Terminal
  /\ status' = "completed"
  /\ group' = [k \in Kinds |-> IF k \in expected THEN Completed(group[k]) ELSE group[k]]
  /\ figures' = [Aggregate(streams, group', combined) EXCEPT !.percent = 100]
  /\ running' = FALSE
  /\ UNCHANGED <<named, expected, streams, combined>>

(* The server starts again from a snapshot of the record.  What is on disk is one
   of the record's earlier states, so to restore the present one is enough. *)
Restart ==
  /\ LET saved == [k \in Kinds |-> [group[k] EXCEPT !.percent = Clamp(@)]] IN
     IF status \in Terminal
       THEN group' = saved /\ UNCHANGED <<status, streams>>
       ELSE /\ status' = "failed"
            /\ streams' = StreamsMarked("failed")
            /\ group' = GroupsMarked(saved, "failed")
  /\ figures' = [figures EXCEPT !.percent = Clamp(@)]
  /\ running' = FALSE
  /\ UNCHANGED <<named, expected, combined>>

--------------------------------------------------------------------------------
HandleProgress(l) == Identified(l) \/ Legacy(l) \/ ErrorLine(l) \/ OtherLine(l)

Next ==
  \/ \E l \in Lines : HandleProgress(l)
  \/ \E s \in {"failed", "cancelled"} : End(s) \/ Unwind(s)
  \/ Complete
  \/ Restart

Spec == Init /\ [][Next]_vars

--------------------------------------------------------------------------------
(* Properties *)

(* The bar does not show a whole download while an expected part of it has not
   begun, whatever sizes and percentages the other parts have reached
   (store/progress.go:296-307, and 344-356 without formats). *)
NoEarlyHundred ==
  status \notin Terminal /\ Clamp(figures.percent) = 100 =>
    \A k \in expected : group[k].status # "waiting"

(* "A second video or audio format must not overwrite the bytes from a format
   that already completed" (worker/progress.go:258-259): the record and its groups
   count what every finished format has received, unless the sum overflows. *)
Finished(S) == {i \in S : streams[i].status = "completed"}

Fits == SumFunction([i \in DOMAIN streams |-> streams[i].done]) <= MaxInt

FinishedBytesCounted ==
  status \notin Terminal /\ Fits =>
    /\ streams # << >> => figures.done >= Received(streams, Finished(DOMAIN streams))
    /\ \A k \in expected : group[k].done >= Received(streams, Finished(Members(streams, k)))

(* A record that has ended shows nothing under way, whoever ended it first and
   whatever came after: an error line, a cancellation, the exit or a restart; and
   a completed one shows every expected part as complete. *)
EndedShowsEnd ==
  /\ status \in Terminal => \A k \in expected : group[k].status \in Terminal
  /\ status \in {"failed", "cancelled"} =>
       \A i \in DOMAIN streams : streams[i].status \in Terminal
  /\ status = "completed" =>
       /\ figures.percent = 100
       /\ \A k \in expected : group[k].status = "completed" /\ group[k].percent = 100
================================================================================
