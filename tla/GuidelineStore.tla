--------------------------- MODULE GuidelineStore ---------------------------
(***************************************************************************)
(* The persistent guidelines (guidelines/service.py, guidelines/tools.py)  *)
(* in their file (persistence/documents.py): each change loads the         *)
(* document, changes one node and saves the whole of it by way of a        *)
(* temporary file.  The guideline specialist makes the changes, one        *)
(* message of a chat at a time; every other agent, the news judge in the   *)
(* monitors' threads among them, reads the file whenever it likes.         *)
(***************************************************************************)
EXTENDS Integers, Functions

CONSTANTS
    Nodes,      \* ids of guidelines, given out by uuid4
    Contents    \* what a guideline may say

Status == {"active", "archived"}
Node == [status : Status, content : Contents]
Document == UNION {[S -> Node] : S \in SUBSET Nodes}
BuildEmpty == [n \in {} |-> 0]  \* build_empty_guideline_document

\* A file holds a whole document, or is missing, or has been written in part.
Holding(d) == [is |-> "whole", holds |-> d]
NoFile == [is |-> "missing", holds |-> BuildEmpty]
InPart == [is |-> "partial", holds |-> BuildEmpty]
File == {Holding(d) : d \in Document} \cup {NoFile, InPart}

VARIABLES
    file,       \* the document's file
    temp,       \* the temporary file beside it
    writer,     \* what the change in progress has come to
    change,     \* the document it means to leave, or its last one did
    known       \* the document the last change started from or confirmed

guidelineVars == <<file, temp, writer, change, known>>

Writer == {"idle", "changed", "writing", "written", "replaced"}

GuidelineInit ==
    /\ file = NoFile /\ temp = NoFile
    /\ writer = "idle"
    /\ change = BuildEmpty /\ known = BuildEmpty

\* FileBackedStructuredDocumentStore.load: a file in part is not JSON, and for one
\* that is missing there is the empty document.
Readable == file # InPart
Load == file.holds

\* A tool has loaded the document and changed it; the error for a node that is
\* not there leaves everything as it is.
Begin(document) ==
    /\ writer = "idle" /\ Readable
    /\ known' = Load
    /\ change' = document
    /\ writer' = "changed"
    /\ UNCHANGED <<file, temp>>

CreateNode(n, content) ==
    /\ n \notin DOMAIN Load
    /\ Begin([m \in DOMAIN Load \cup {n} |->
                IF m = n THEN [status |-> "active", content |-> content] ELSE Load[m]])

\* An update leaves the status alone, and a node that is archived can be updated.
UpdateNode(n, content) ==
    n \in DOMAIN Load /\ Begin([Load EXCEPT ![n].content = content])

ArchiveNode(n) ==
    n \in DOMAIN Load /\ Begin([Load EXCEPT ![n].status = "archived"])

\* With confirmed=true only.
DeleteNode(n) ==
    n \in DOMAIN Load /\ Begin(Restrict(Load, DOMAIN Load \ {n}))

\* For mutation testing: the file itself is opened for writing.
OpenFileItself ==
    /\ writer = "changed"
    /\ file' = InPart
    /\ writer' = "writing"
    /\ UNCHANGED <<temp, change, known>>

\* save: the temporary file is opened, which empties one left by a crash, filled,
\* and put in the place of the other; then the tool answers.
OpenTemporary ==
    /\ writer = "changed"
    /\ temp' = InPart
    /\ writer' = "writing"
    /\ UNCHANGED <<file, change, known>>

FillTemporary ==
    /\ writer = "writing"
    /\ temp' = Holding(change)
    /\ writer' = "written"
    /\ UNCHANGED <<file, change, known>>

Replace ==
    /\ writer = "written"
    /\ file' = temp
    /\ temp' = NoFile
    /\ writer' = "replaced"
    /\ UNCHANGED <<change, known>>

Reply ==
    /\ writer = "replaced"
    /\ known' = change
    /\ writer' = "idle"
    /\ UNCHANGED <<file, temp, change>>

\* The program dies, or the disk is full, at any point of a change.
GuidelineCrash ==
    /\ writer # "idle"
    /\ writer' = "idle"
    /\ UNCHANGED <<file, temp, change, known>>

GuidelineNext ==
    \/ \E n \in Nodes, content \in Contents : CreateNode(n, content) \/ UpdateNode(n, content)
    \/ \E n \in Nodes : ArchiveNode(n) \/ DeleteNode(n)
    \/ OpenTemporary \/ FillTemporary \/ Replace \/ Reply \/ GuidelineCrash

GuidelineSpec == GuidelineInit /\ [][GuidelineNext]_guidelineVars

-----------------------------------------------------------------------------
(* Properties *)

\* Whoever reads the guidelines, at any moment of a change and after a crash at
\* any point of one, reads a whole document: the one the change started from or
\* the one it was to leave. And a change the person was told of is there.
GuidelinesSurvive ==
    /\ Readable
    /\ Load \in {known, change}
    /\ writer \in {"changed", "writing", "written"} => Load = known

=============================================================================
