---------------------------- MODULE FileServing ----------------------------
(***************************************************************************)
(* How the workbench reads an artifact (server/files.rs, workspace/        *)
(* artifacts.rs and jobs.rs).  The project's views name a file by a URL    *)
(* with its version; the server answers whole files, ranges and            *)
(* revalidations; a player keeps what it got and asks for the rest.  The   *)
(* file is replaced and removed meanwhile.  A request has two steps: its   *)
(* headers come from the metadata, its bytes from the file it opens later. *)
(***************************************************************************)
EXTENDS Integers, FiniteSets, FiniteSetsExt

CONSTANTS
  Sizes,          \* sizes a file may have
  MaxServed,      \* MAX_SERVED_BYTES
  Numbers,        \* numbers in a Range header
  MayReplace,     \* whether a file is replaced in the middle of a request
  MaxVersions,    \* bound: replacements of the file
  MaxRequests     \* bound: requests

ASSUME ServingAssumption ==
  Sizes \subseteq Nat /\ Numbers \subseteq Nat /\ {MaxServed, MaxVersions, MaxRequests} \subseteq Nat

VARIABLES
  file,           \* its version, and its size, or Gone
  place,          \* where the path is, as asked and as it resolves
  url,            \* the version in the URL of the page, 0 for a URL without one
  copy,           \* the player's copy: the version of its tag, and its bytes
  request,        \* the request in progress
  answer,         \* how it is answered
  requests        \* requests made so far

servingVars == <<file, place, url, copy, request, answer, requests>>

Version  == 0..MaxVersions
Gone     == -1
Places   == {"file", "denied", "other type"}
Whole    == [form |-> "whole"]
\* What a Range header may say: nothing, one range, or something unreadable.
Ranges   == {Whole, [form |-> "repeated"], [form |-> "other unit"], [form |-> "unreadable"]}
            \cup [form : {"from"}, first : Numbers]
            \cup [form : {"between"}, first : Numbers, last : Numbers]
            \cup [form : {"suffix"}, length : Numbers]
NoRequest == [range |-> Whole, ifRange |-> 0, noneMatch |-> 0, head |-> FALSE]
NoAnswer  == [status |-> 0, version |-> 0, size |-> 0, first |-> 0, length |-> 0]
Refusal(status) == [NoAnswer EXCEPT !.status = status]

\* The bytes of a version, each a place in it.
Bytes(version, first, length) == {<<version, i>> : i \in first..first + length - 1}
NoCopy == [tag |-> 0, bytes |-> {}]

ServingTypeOK ==
  /\ file \in [version : Version, size : Sizes \cup {Gone}]
  /\ place \in [asked : Places, resolved : Places]
  /\ url \in Version /\ requests \in 0..MaxRequests
  /\ copy.tag \in Version /\ copy.bytes \subseteq Version \X Nat
  /\ request \in [range : Ranges, ifRange : Version, noneMatch : Version, head : BOOLEAN]
  /\ answer.status \in {0, 200, 206, 304, 400, 404, 410, 413, 416, 500}

ServingInit ==
  /\ file \in [version : {1}, size : Sizes]
  /\ place \in [asked : Places, resolved : Places]
  /\ url = 0 /\ copy = NoCopy /\ request = NoRequest /\ answer = NoAnswer /\ requests = 0

----------------------------------------------------------------------------
Free   == answer = NoAnswer
Exists == file.size # Gone

\* A job writes the file again, or pruning or an author removes it.
Replace(size) ==
  /\ MayReplace \/ Free
  /\ file.version < MaxVersions
  /\ file' = [version |-> file.version + 1, size |-> size]
  /\ UNCHANGED <<place, url, copy, request, answer, requests>>

RemoveFile ==
  /\ MayReplace \/ Free
  /\ file.version < MaxVersions /\ Exists
  /\ file' = [version |-> file.version + 1, size |-> Gone]
  /\ UNCHANGED <<place, url, copy, request, answer, requests>>

\* `artifact_view`: a page shows the artifacts still there, under their present
\* versions; under another URL the player starts from nothing.
View ==
  /\ Free /\ Exists
  /\ url' \in {file.version, 0}
  /\ url' # url
  /\ copy' = NoCopy
  /\ UNCHANGED <<file, place, request, answer, requests>>

\* The player may say which copy it would add a part to, or ask whether its
\* copy is still the file.
Validators(r) == r.noneMatch # 0 => r.range = Whole /\ r.ifRange = 0

\* `If-Range`: a copy of another version gets the whole file.
SameCopy(r) == r.ifRange \in {0, file.version}

\* Mutant: the end of a range is taken as asked.
Unclamped(last, size) == last

Clamped(last, size) == IF last < size - 1 THEN last ELSE size - 1

\* `requested_range`: the first place and the last, or why there is none.
RequestedRange(r, size) ==
  LET none  == [kind |-> "whole", first |-> 0, last |-> size - 1]
      error == [none EXCEPT !.kind = "unsatisfiable"]
      part(first, last) == [kind |-> "part", first |-> first, last |-> Clamped(last, size)]
  IN IF r.range = Whole THEN none
     ELSE IF r.range.form = "repeated" THEN error
     ELSE IF ~SameCopy(r) \/ r.range.form = "other unit" THEN none
     ELSE CASE r.range.form = "unreadable" -> error
            [] r.range.form = "suffix" ->
                 IF r.range.length = 0 \/ size = 0 THEN error
                 ELSE part(IF size > r.range.length THEN size - r.range.length ELSE 0, size - 1)
            [] r.range.form = "from" ->
                 IF r.range.first >= size THEN error ELSE part(r.range.first, size - 1)
            [] r.range.form = "between" ->
                 IF r.range.first >= size \/ r.range.first > r.range.last THEN error
                 ELSE part(r.range.first, r.range.last)

\* `locate`: the rules for the path, before and after it is resolved.
Located ==
  IF place.asked # "file" THEN 400
  ELSE IF ~Exists THEN 404
  ELSE IF place.resolved # "file" THEN 400
  ELSE IF file.size > MaxServed THEN 413
  ELSE 200

\* A link to an earlier version is gone.
RightVersion == url \in {0, file.version}

\* `serve` up to the body: everything the headers say.
Headers(r) ==
  LET range == RequestedRange(r, file.size)
      of(status) == [status |-> status, version |-> file.version, size |-> file.size,
                     first |-> range.first, length |-> range.last - range.first + 1]
  IN IF Located # 200 THEN Refusal(Located)
     ELSE IF ~RightVersion THEN Refusal(410)
     ELSE IF r.noneMatch = file.version THEN of(304)
     ELSE IF range.kind = "unsatisfiable" THEN Refusal(416)
     ELSE of(IF range.kind = "part" THEN 206 ELSE 200)

Ask(range) ==
  /\ Free /\ requests < MaxRequests
  /\ \E ifRange, noneMatch \in {0, copy.tag}, head \in BOOLEAN :
       LET r == [range |-> range, ifRange |-> ifRange, noneMatch |-> noneMatch, head |-> head]
       IN Validators(r) /\ request' = r /\ answer' = Headers(r)
  /\ requests' = requests + 1
  /\ UNCHANGED <<file, place, url, copy>>

\* The player adds a part to the copy it asked it for; anything else it got is a new copy.
Keep(bytes) ==
  copy' = IF answer.status = 206 /\ request.ifRange # 0
            THEN [copy EXCEPT !.bytes = @ \cup bytes]
            ELSE [tag |-> answer.version, bytes |-> bytes]

\* The rest of `serve`: the body is read from the file as it is by then.
Send ==
  /\ answer.status \in {200, 206}
  /\ IF request.head \/ ~Exists THEN UNCHANGED copy
     ELSE Keep({b \in Bytes(file.version, answer.first, answer.length) : b[2] < file.size})
  /\ answer' = NoAnswer /\ request' = NoRequest
  /\ UNCHANGED <<file, place, url, requests>>

Refuse ==
  /\ answer.status \notin {0, 200, 206}
  /\ answer' = NoAnswer /\ request' = NoRequest
  /\ UNCHANGED <<file, place, url, copy, requests>>

ServingNext ==
  \/ \E size \in Sizes : Replace(size)
  \/ RemoveFile \/ View \/ Send \/ Refuse
  \/ \E range \in Ranges : Ask(range)

ServingSpec == ServingInit /\ [][ServingNext]_servingVars

----------------------------------------------------------------------------
(* What a player put together from answers of several requests is all of one
   version, and under a versioned URL of that version, although the file was
   replaced between them (files.rs, serve and requested_range).  It takes a
   replacement between two requests; one within a request is not excluded by
   the code, see MayReplace. *)
CopiesAreOfOneVersion ==
  \A b \in copy.bytes : b[1] = copy.tag /\ (url # 0 => b[1] = url)

(* A range is answered with the bytes it names that the file has, and refused
   when there are none (files.rs, requested_range). *)
RangesAreExact ==
  LET wanted ==
        {i \in 0..file.size - 1 :
           CASE request.range.form = "from"    -> i >= request.range.first
             [] request.range.form = "between" -> i >= request.range.first /\ i <= request.range.last
             [] request.range.form = "suffix"  -> i >= file.size - request.range.length
             [] OTHER -> TRUE}
      sent == {b[2] : b \in Bytes(answer.version, answer.first, answer.length)}
  IN /\ answer.status = 206 => sent = wanted /\ wanted # {}
     /\ answer.status = 200 => sent = 0..file.size - 1
     /\ (answer.status = 416 /\ request.range.form \notin {"unreadable", "repeated"}) => wanted = {}

(* A player gets the bytes it asked for, all of one file (files.rs, serve). *)
PlayersGetWhatTheyAskFor == CopiesAreOfOneVersion /\ RangesAreExact
=============================================================================
