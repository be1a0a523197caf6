--------------------------- MODULE ArtifactCheck ---------------------------
(***************************************************************************)
(* The contract a job's artifacts are held to before the job may succeed   *)
(* (scheduler/artifacts.rs, validate; execute.rs, accept_result).  A file  *)
(* is what the probe and the disk say of it.  Rates are fractions, as the  *)
(* probe prints them; GIFs play at 100/n for a whole delay n.              *)
(***************************************************************************)
EXTENDS Integers, Sequences, FiniteSets, SequencesExt

CONSTANTS
  Cases,      \* jobs: what each was asked for, the files and the report it came back with
  Source,     \* the probed input of frame, qa and export jobs
  Budget      \* the bytes a job may produce

\* A GIF shows each frame for a whole number of centiseconds, if the probe tells.
WholeDelay(rate) == rate[1] > 0 => (100 * rate[2]) % rate[1] = 0

\* What is asked of a render, and what a probe and a disk may say of a file.
ASSUME CheckAssumption ==
  /\ Budget \in Nat
  /\ \A c \in Cases :
       /\ c.task.op = "render" => c.task.fps \in Nat \ {0} /\ c.task.format \in {"mp4", "mov", "webm", "gif"}
       /\ c.result \in Seq({c.result[i] : i \in DOMAIN c.result})
       /\ \A i \in DOMAIN c.result :
            LET made == c.result[i] IN
            /\ made.bytes \in Nat /\ {made.avg, made.base} \subseteq Nat \X Nat
            /\ made.ext = "gif" => WholeDelay(made.avg) /\ WholeDelay(made.base)

VARIABLES
  task,       \* the job's task
  result,     \* its artifacts as reported
  report,     \* whether the result parses, and what an export says of itself
  next,       \* the artifact checked next
  total,      \* the bytes of those checked
  verdict

checkVars == <<task, result, report, next, total, verdict>>

Visual == {"video", "section", "image", "sheet"}
Moving == {"mp4", "mov", "webm", "gif"}

CheckInit ==
  /\ \E c \in Cases : task = c.task /\ result = c.result /\ report = c.report
  /\ next = 1 /\ total = 0 /\ verdict = "none"

----------------------------------------------------------------------------
AllowedKinds(op) ==
  CASE op \in {"init", "ingest"}  -> {"file"}
    [] op = "render"              -> {"video", "section", "captions", "timeline"}
    [] op \in {"still", "frame"}  -> {"image"}
    [] op = "qa"                  -> {"image", "sheet"}
    [] op = "contact_sheet"       -> {"sheet"}
    [] op = "captions"            -> {"captions"}
    [] op = "zip"                 -> {"archive"}
    [] op = "export"              -> {"video"}
    [] OTHER                      -> {}

\* Where a task's files may be: among the project's, at its output, in its directory.
Location(t) ==
  CASE t.op \in {"zip", "export"}    -> "output"
    [] t.op = "captions"             -> IF t.output THEN "output" ELSE "nowhere"
    [] t.op \in {"init", "ingest"}   -> "project"
    [] t.op \in {"doctor", "discover", "diagnose", "validate_math"} -> "nowhere"
    [] OTHER                         -> "directory"

\* `confine`: a plain path to a file in the project.
Confined(a) ==
  CASE a.place \in {"gone", "a directory"}   -> "missing"
    [] a.place \in {"outside", "not a path"} -> "location"
    [] OTHER                                 -> "fine"

\* The families of formats the probe may see behind an extension.
Families(ext) ==
  CASE ext = "mp4"  -> {"mp4", "mov"}
    [] ext = "mov"  -> {"mov"}
    [] ext = "webm" -> {"webm", "matroska"}
    [] ext = "gif"  -> {"gif"}
    [] ext = "png"  -> {"png_pipe", "image2", "apng"}
    [] OTHER        -> {}

\* `probe_media`: what it takes for a file to be measured.
Measurable(a) == a.probes /\ a.families \cap Families(a.ext) # {} /\ a.stream /\ a.width * a.height > 0

NoRate == <<0, 1>>
IsRate(r) == r[1] > 0 /\ r[2] > 0

\* `media_info`: an image has no rate; a stream's average comes before its base rate.
Fps(a) ==
  IF a.ext \notin Moving THEN NoRate
  ELSE IF IsRate(a.avg) THEN a.avg
  ELSE IF IsRate(a.base) THEN a.base
  ELSE NoRate

HasAlpha(a) == a.pixels = "alpha" \/ a.alphaMode \notin {"", "0"}

\* `inspect`: the checks of a kind.
Inspected(a) ==
  CASE a.kind \in {"video", "section"} ->
         IF a.ext \notin Moving THEN "contract" ELSE IF Measurable(a) THEN "fine" ELSE "probe"
    [] a.kind \in {"image", "sheet"} ->
         IF a.head # "png" THEN "signature" ELSE IF Measurable(a) THEN "fine" ELSE "probe"
    [] a.kind = "archive"                 -> IF a.head = "zip" THEN "fine" ELSE "signature"
    [] a.kind \in {"captions", "timeline"} -> IF a.head = a.kind THEN "fine" ELSE "parse"
    [] a.kind = "file"                    -> "fine"

Abs(n) == IF n < 0 THEN -n ELSE n
\* |p - q| as a fraction, and the order of fractions.
Apart(p, q)   == <<Abs(p[1] * q[2] - q[1] * p[2]), p[2] * q[2]>>
AtMost(p, q)  == p[1] * q[2] <= q[1] * p[2]

\* `check_fps`: a tenth of a percent, and never less than a hundredth.
RateFits(actual, expected) ==
  /\ actual # NoRate
  /\ LET apart == Apart(actual, expected)
     IN AtMost(apart, <<expected[1], 1000 * expected[2]>>) \/ AtMost(apart, <<1, 100>>)

\* Mutant: the delay is rounded down and that is that.
RoundedRate(fps, actual) == <<100, IF fps > 100 THEN 1 ELSE 100 \div fps>>

\* `gif_rate`: of the rates of the two whole delays around 100/fps, the one nearest to `actual`.
GifRate(fps, actual) ==
  LET fast == <<100, IF fps > 100 THEN 1 ELSE 100 \div fps>>
      slow == <<100, (99 + fps) \div fps>>
  IN IF actual = NoRate \/ AtMost(Apart(fast, actual), Apart(slow, actual)) THEN fast ELSE slow

Differs(field, bad) == IF bad THEN {field} ELSE {}
Size(a, width, height) == Differs("width", a.width # width) \cup Differs("height", a.height # height)
Rate(a, rate)          == Differs("fps", ~RateFits(Fps(a), rate))
Alpha(a, required)     == Differs("has_alpha", required /\ ~HasAlpha(a))

\* `contract`: the fields in which a file differs from what its operation asked for.
Mismatches(a) ==
  LET t == task IN
  CASE t.op = "render" /\ a.kind = "video" ->
         Size(a, t.width, t.height) \cup Differs("container", a.ext # t.format)
         \cup Rate(a, IF t.format = "gif" THEN GifRate(t.fps, Fps(a)) ELSE <<t.fps, 1>>)
         \cup Alpha(a, t.alpha)
    [] t.op = "render" /\ a.kind = "section" -> Size(a, t.width, t.height)
    [] t.op = "still" -> Size(a, t.width, t.height) \cup Alpha(a, t.alpha)
    [] t.op \in {"frame", "qa"} /\ a.kind = "image" -> Size(a, Source.width, Source.height)
    [] t.op = "export" /\ t.format = "gif" ->
         IF ~report.transcoded THEN {}
         ELSE Differs("width", a.width # IF t.width < Source.width THEN t.width ELSE Source.width)
              \cup (IF report.rate = NoRate THEN {} ELSE Rate(a, report.rate))
    [] t.op = "export" /\ t.format # "gif" ->
         Size(a, Source.width, Source.height) \cup Alpha(a, t.alpha)
         \cup (IF Source.rate = NoRate THEN {} ELSE Rate(a, Source.rate))
    [] OTHER -> {}

\* `validate`: the checks of one artifact, in their order.
Examined(a) ==
  IF a.kind \notin AllowedKinds(task.op) THEN "contract"
  ELSE IF Confined(a) # "fine" THEN Confined(a)
  ELSE IF a.place # Location(task) THEN "location"
  ELSE IF a.bytes = 0 /\ a.kind # "file" THEN "empty"
  ELSE IF Inspected(a) # "fine" THEN Inspected(a)
  ELSE IF a.kind \in Visual /\ Mismatches(a) # {} THEN "contract"
  ELSE "fine"

Files == 1..Len(result)

\* `accept_result`: a result must parse, and a render has exactly one video.
Objection ==
  IF ~report.parses THEN "runtime_protocol"
  ELSE IF task.op = "render" /\ Cardinality({i \in Files : result[i].kind = "video"}) # 1 THEN "contract"
  ELSE "none"

RejectAll ==
  /\ verdict = "none" /\ Objection # "none"
  /\ verdict' = Objection
  /\ UNCHANGED <<task, result, report, next, total>>

\* The first violation fails the job.
Examine ==
  /\ verdict = "none" /\ Objection = "none" /\ next \in Files
  /\ LET check == Examined(result[next])
     IN IF check = "fine"
          THEN next' = next + 1 /\ total' = total + result[next].bytes /\ UNCHANGED verdict
          ELSE verdict' = check /\ UNCHANGED <<next, total>>
  /\ UNCHANGED <<task, result, report>>

Conclude ==
  /\ verdict = "none" /\ Objection = "none" /\ next \notin Files
  /\ verdict' = IF total > Budget THEN "budget_exceeded" ELSE "accepted"
  /\ UNCHANGED <<task, result, report, next, total>>

CheckNext == RejectAll \/ Examine \/ Conclude
CheckSpec == CheckInit /\ [][CheckNext]_checkVars

----------------------------------------------------------------------------
\* A rate is near another one within a hundredth of a frame.  A GIF plays at a
\* rate when its delay is 100/fps rounded down or up to whole centiseconds, or it
\* is that near; anything else when it is off by less than a frame in a thousand,
\* or that near.
Near(r, fps) == Abs(r[1] - fps * r[2]) * 100 <= r[2]
GifPlays(r, fps) ==
  \/ \E n \in 1..100 : /\ r[1] * n = 100 * r[2]
                       /\ \/ (n - 1) * fps < 100 /\ 100 < (n + 1) * fps
                          \/ fps > 100 /\ n = 1
  \/ Near(r, fps)
VideoPlays(r, fps) ==
  \/ Abs(r[1] - fps * r[2]) * 1000 <= fps * r[2]
  \/ Near(r, fps)

\* The bytes of a sequence of files.
Weight(files) == FoldLeft(LAMBDA sum, a : sum + a.bytes, 0, files)

VideoIsAsAsked(a) ==
  LET played == IF IsRate(a.avg) THEN a.avg ELSE a.base IN
  /\ a.probes /\ a.stream /\ a.families \cap Families(a.ext) # {}
  /\ <<a.ext, a.width, a.height>> = <<task.format, task.width, task.height>>
  /\ task.alpha => a.pixels = "alpha" \/ a.alphaMode \notin {"", "0"}
  /\ IsRate(played)
  /\ IF task.format = "gif" THEN GifPlays(played, task.fps) ELSE VideoPlays(played, task.fps)

(* A render succeeds exactly when its video is the one asked for, at the rate
   asked for: GIF delays round to either side, probes print 30000/1001 for 30,
   and neither may let another rate pass or refuse a right one; and whatever
   succeeds left only files of its own place that fit the budget (artifacts.rs,
   validate, contract, check_fps and gif_rate). *)
AcceptedIsAsAsked ==
  /\ verdict = "accepted" =>
       /\ \A i \in Files : result[i].place = Location(task) /\ (result[i].bytes > 0 \/ result[i].kind = "file")
       /\ Weight(result) <= Budget
       /\ task.op = "render" => \A i \in Files : result[i].kind = "video" => VideoIsAsAsked(result[i])
  /\ (verdict = "contract" /\ task.op = "render" /\ Len(result) = 1) =>
       ~(result[1].kind = "video" /\ VideoIsAsAsked(result[1]))
=============================================================================
