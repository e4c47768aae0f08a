-------------------------------- MODULE MCRecord --------------------------------
(***************************************************************************)
(* What the record of a job shows: its files (Files) and its figures        *)
(* (Progress).  The two share no state, so a run picks one of them in its   *)
(* initial state, and the other rests.                                     *)
(***************************************************************************)
EXTENDS Files

CONSTANTS Formats, MaxInt   \* of Progress

(* yt-dlp downloads finitely many formats, and a byte count can be one. *)
ASSUME FiguresAssumption ==
  /\ IsFiniteSet(Formats)
  /\ MaxInt \in Nat \ {0}

VARIABLES
  part,   \* "files" or "figures": the one explored
  named, expected, shownStatus, streams, group, combined, figures, running

figuresVars == <<named, expected, shownStatus, streams, group, combined, figures, running>>

recordParts == <<part, vars, figuresVars>>

(* The progress lines explored: sizes at both ends of the range, without what a step
   does not read.  Bytes that are not counted are nought in a line without a format;
   a fragment count is read of a line that is under way and has no size, a file name
   of one that names no codec.  Both codecs count as none does, but for a format
   when only audio is expected, which is left out. *)
Sizes == {0, 1, MaxInt}

Codecs == {{}, {"video"}, {"audio"}}

Line(format, codecs, name, state, m) ==
  [format |-> format, codecs |-> codecs, name |-> name, status |-> state,
   total |-> m.total, done |-> m.done, part |-> m.part]

Lines ==
  LET under == [total: Sizes, done: Sizes, part: {-1}]
               \cup [total: {0}, done: Sizes, part: {50}]
      over == [total: Sizes, done: Sizes, part: {-1}]
      uncounted == {"downloading", "finished"} \X [total: Sizes, done: {-1}, part: {-1}]
      nothing == [total |-> 0, done |-> 0, part |-> -1]
      measured == ({"downloading"} \X under) \cup ({"finished"} \X over)
      assigned == ({{}} \X {"video", "audio", "other"}) \cup ({{"video"}, {"audio"}} \X {"other"})
  IN  {Line(f, c, "other", m[1], m[2]) : f \in Formats, c \in Codecs, m \in measured \cup uncounted}
      \cup {Line("none", a[1], a[2], m[1], m[2]) : a \in assigned, m \in measured}
      \cup {Line("none", a[1], a[2], s, nothing) : a \in assigned, s \in {"error", "other"}}

Figures == INSTANCE Progress WITH status <- shownStatus

FiguresRest ==
  /\ named = FALSE /\ expected = {} /\ shownStatus = "active" /\ streams = << >>
  /\ group = << >> /\ combined = FALSE /\ figures = << >> /\ running = FALSE

RecordInit ==
  /\ part \in {"files", "figures"}
  /\ Init
  /\ IF part = "figures" THEN Figures!Init ELSE FiguresRest

RecordNext ==
  \/ part = "files" /\ Next /\ UNCHANGED <<part, figuresVars>>
  \/ part = "figures" /\ Figures!Next /\ UNCHANGED <<part, vars>>

RecordSpec == RecordInit /\ [][RecordNext]_recordParts

Symmetry == Permutations(Clients) \cup Permutations(Formats)

(* The properties of Progress; those of Files keep their names. *)
NoEarlyHundred == part = "figures" => Figures!NoEarlyHundred
FinishedBytesCounted == part = "figures" => Figures!FinishedBytesCounted
EndedShowsEnd == part = "figures" => Figures!EndedShowsEnd
================================================================================
