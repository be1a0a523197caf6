\* One document in a tab while an agent writes it through another engine and
\* other programs write it without asking; a file served to a player; jobs with
\* files of every kind; an edit of a text of up to three lines.  One at a time.
SPECIFICATION FilesSpec
CONSTANTS
  \* EditorSession and SourceWrite
  tab = tab
  agent = agent
  a = a
  b = b
  broken = broken
  Writers = {tab, agent}
  Tab = tab
  Texts <- AllTexts
  Valid <- ValidTexts
  NoFile = NoFile
  KeepSnapshots = 1
  MaxSnapshots = 2
  MaxLoads = 1
  MaxSpent = 3
  \* FileServing
  Sizes = {0, 1, 3, 4}
  MaxServed = 3
  Numbers = {0, 1, 2, 3}
  MayReplace = FALSE
  MaxVersions = 3
  MaxRequests = 3
  \* ArtifactCheck
  Cases <- AllCases
  Source <- Film
  Budget = 4
  \* TextEdit
  Words = {"a"}
  MaxLines = 3
  PageLines = 2
SYMMETRY Symmetry
INVARIANTS NoEditIsLost PlayersGetWhatTheyAskFor AcceptedIsAsAsked LineNumbersHold
PROPERTIES WritesLoseNothing NothingUnseenIsOverwritten
CHECK_DEADLOCK FALSE
