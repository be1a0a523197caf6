------------------------------ MODULE MCFiles ------------------------------
(* Instances for TLC of what happens to files: the editing of sources, line  *)
(* by line and in the workbench, the check of what a job made and the HTTP   *)
(* server's answers.  They share no state: a behaviour runs one of them, its *)
(* `focus`, and leaves the others as they start.                             *)
EXTENDS EditorSession, FileServing, ArtifactCheck, TextEdit, TLC

CONSTANTS tab, agent, a, b, broken

VARIABLE focus

----------------------------------------------------------------------------
ValidTexts == {a, b}
AllTexts == {a, b, broken}
Symmetry == Permutations(ValidTexts)

----------------------------------------------------------------------------
(* The jobs of ArtifactCheck: two pixels of a film, asked for and made wrong in
   one way or two. *)
Film == [width |-> 2, height |-> 1, rate |-> <<30, 1>>]

Video == [kind |-> "video", place |-> "directory", bytes |-> 3, ext |-> "mp4", families |-> {"mov", "mp4"},
          probes |-> TRUE, stream |-> TRUE, width |-> 2, height |-> 1, avg |-> <<30, 1>>, base |-> <<30, 1>>,
          pixels |-> "plain", alphaMode |-> "", head |-> "video"]
Gif   == [Video EXCEPT !.ext = "gif", !.families = {"gif"}, !.avg = <<100, 3>>, !.base = <<100, 3>>]
Image == [Video EXCEPT !.kind = "image", !.ext = "png", !.families = {"png_pipe"}, !.head = "png"]

Spots == {"directory", "output", "project", "outside", "gone", "a directory", "not a path"}

Rates == {<<n, d>> : n \in 0..61, d \in 0..2}
Broadcast == {<<30000, 1001>>, <<24000, 1001>>, <<2999, 100>>, <<2996, 100>>}

\* Videos with one thing changed.
Videos ==
  {[Video EXCEPT !.place = p] : p \in Spots}
  \cup {[v EXCEPT !.families = f] :
          v \in {Gif} \cup {[Video EXCEPT !.ext = e] : e \in {"mp4", "mov", "webm", "png"}},
          f \in {{"mov", "mp4"}, {"matroska", "webm"}, {"gif"}, {}}}
  \cup {[Video EXCEPT !.probes = p, !.stream = s] : p \in BOOLEAN, s \in BOOLEAN}
  \cup {[Video EXCEPT !.width = w, !.height = h] : w \in 0..3, h \in 0..2}
  \cup {[Video EXCEPT !.pixels = p, !.alphaMode = m] : p \in {"plain", "alpha"}, m \in {"", "0", "1"}}
  \cup {[Video EXCEPT !.kind = "section", !.width = w] : w \in {2, 3}}
  \cup {[Video EXCEPT !.bytes = n] : n \in {0, 9}}
  \cup {[Video EXCEPT !.avg = r] : r \in Rates}
  \cup {[Video EXCEPT !.avg = <<0, 0>>, !.base = r] : r \in Rates}
  \cup {[Gif EXCEPT !.avg = <<100, n>>] : n \in 1..60 \cup 98..103}
  \cup {[Gif EXCEPT !.avg = <<0, 0>>, !.base = <<100, n>>] : n \in 1..9}

Stills == {[Image EXCEPT !.head = h, !.place = p] : h \in {"png", "text"}, p \in {"directory", "output"}}
          \cup {[Image EXCEPT !.width = w, !.height = h, !.pixels = p] :
                  w \in 1..2, h \in 0..1, p \in {"plain", "alpha"}}
          \cup {[Image EXCEPT !.kind = "sheet", !.bytes = n] : n \in {0, 3}}

Documents == {[Video EXCEPT !.kind = k, !.head = h, !.place = p, !.bytes = n] :
             k \in {"captions", "timeline", "archive", "file"}, h \in {"captions", "timeline", "zip"},
             p \in {"directory", "output", "project", "outside"}, n \in {0, 3}}

Task(op) == [op |-> op, width |-> 2, height |-> 1, fps |-> 30, format |-> "mp4", alpha |-> FALSE, output |-> TRUE]
Renders  == {[Task("render") EXCEPT !.format = f, !.fps = r, !.alpha = x] :
               f \in {"mp4", "mov", "webm", "gif"}, r \in {1, 2, 3, 12, 24, 30, 60, 120}, x \in BOOLEAN}

Reported == [parses : BOOLEAN, transcoded : BOOLEAN, rate : {<<0, 1>>, <<100, 3>>}]
Plain    == [parses |-> TRUE, transcoded |-> FALSE, rate |-> <<0, 1>>]
One(files) == {<<f>> : f \in files}
Exported(files) == {[f EXCEPT !.place = "output"] : f \in files}

AllCases ==
  {[task |-> c[1], result |-> c[2], report |-> c[3]] : c \in
     (Renders \X One(Videos) \X {Plain})
     \cup ({t \in Renders : t.format # "gif"} \X {<<[Video EXCEPT !.avg = r]>> : r \in Broadcast} \X {Plain})
     \cup ({Task("render")} \X ({<<>>, <<Video, Video>>} \cup {<<Video, x>> : x \in Documents \cup Videos}) \X {Plain})
     \cup ({[Task(op) EXCEPT !.alpha = x] : op \in {"still", "frame", "qa", "contact_sheet"}, x \in BOOLEAN}
            \X One(Stills \cup {Video}) \X {Plain})
     \cup ({[Task(op) EXCEPT !.output = x] : op \in {"init", "captions", "zip", "doctor"}, x \in BOOLEAN}
            \X (One(Documents) \cup {<<>>}) \X {Plain})
     \cup ({[Task("export") EXCEPT !.format = f, !.width = w, !.alpha = x] :
              f \in {"mp4", "webm", "gif"}, w \in 1..3, x \in BOOLEAN}
            \X One(Exported(Videos)) \X Reported)}

----------------------------------------------------------------------------
EditorRests  == EditorInit /\ disk = broken
ServingRests ==
  /\ file = [version |-> 1, size |-> 1] /\ place = [asked |-> "file", resolved |-> "file"]
  /\ url = 0 /\ copy = NoCopy /\ request = NoRequest /\ answer = NoAnswer /\ requests = 0
CheckRests ==
  /\ task = Task("doctor") /\ result = <<>> /\ report = Plain
  /\ next = 1 /\ total = 0 /\ verdict = "none"
TextRests ==
  /\ source = Written(<<>>, FALSE)
  /\ read = <<>> /\ edited = source /\ edit = NoEdit

FilesInit ==
  /\ focus \in {"editor", "serving", "check", "text"}
  /\ IF focus = "editor" THEN EditorInit ELSE EditorRests
  /\ IF focus = "serving" THEN ServingInit ELSE ServingRests
  /\ IF focus = "text" THEN TextInit ELSE TextRests
  /\ IF focus = "check" THEN CheckInit ELSE CheckRests

FilesNext ==
  \/ focus = "editor" /\ EditorNext /\ UNCHANGED <<focus, servingVars, checkVars, textVars>>
  \/ focus = "serving" /\ ServingNext /\ UNCHANGED <<focus, vars, checkVars, textVars>>
  \/ focus = "check" /\ CheckNext /\ UNCHANGED <<focus, vars, servingVars, textVars>>
  \/ focus = "text" /\ TextNext /\ UNCHANGED <<focus, vars, servingVars, checkVars>>

FilesSpec == FilesInit /\ [][FilesNext]_<<focus, vars, servingVars, checkVars, textVars>>
============================================================================
