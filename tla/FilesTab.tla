------------------------------- MODULE FilesTab --------------------------------
(***************************************************************************)
(* The file manager of a server in one browser tab (web FilesTab.tsx): the *)
(* directory shown, the inline editor, and the requests it sends to the    *)
(* node.  A file holds the content last written to it; a content is known  *)
(* by the path it was first read from and by whether it was edited.        *)
(*                                                                         *)
(* The callbacks of a mutation are those of the component's last render as *)
(* long as the mutation is the hook's latest, so the answer to openFile is *)
(* filed under the directory shown when it arrives; the callbacks of       *)
(* earlier ones are those of the render before the next began.             *)
(***************************************************************************)
EXTENDS Integers

CONSTANTS
  Dirs,      \* directories
  Names,     \* names an entry may have in each
  FileOps,   \* requests under way at a time
  MaxFileOps \* bound: requests ever sent

\* The directory of the server itself, the root, is always there.
ASSUME FilesAssumption == Dirs # {}

Paths == Dirs \X Names
NoPath == <<"", "">>
NoOp == [kind |-> "none", file |-> NoPath, dir |-> "", text |-> NoPath, sent |-> FALSE]

VARIABLES
  tree,      \* the node's files: content of each path, NoPath for no file
  cwd,       \* path: the directory shown
  editing,   \* editingPath, NoPath for a closed editor
  text,      \* editorContent: the file it was read from
  op,        \* per slot the request under way
  latest,    \* the slot of the latest openFile
  sentOps,   \* requests sent so far
  strayed    \* history: the directory changed while a file was being read

filesVars == <<tree, cwd, editing, text, op, latest, sentOps, strayed>>

Reading == {o \in FileOps : op[o].kind = "read"}

Send(o, r) ==
  /\ op[o] = NoOp /\ sentOps < MaxFileOps
  /\ sentOps' = sentOps + 1
  /\ op' = [op EXCEPT ![o] = r]

Done(o) == op' = [op EXCEPT ![o] = NoOp]

-----------------------------------------------------------------------------
\* A crumb or a folder is clicked.
Navigate(d) ==
  /\ d # cwd /\ cwd' = d
  /\ op' = [o \in FileOps |-> IF o = latest /\ op[o].kind = "read"
                              THEN [op[o] EXCEPT !.dir = d] ELSE op[o]]
  /\ strayed' = (strayed \/ Reading # {})
  /\ UNCHANGED <<tree, editing, text, latest, sentOps>>

\* The path changes when a file is clicked, the content when it arrives.
NamedAtOnce(o, name) ==
  /\ tree[<<cwd, name>>] # NoPath
  /\ Send(o, [NoOp EXCEPT !.kind = "read", !.file = <<cwd, name>>, !.dir = cwd])
  /\ latest' = o
  /\ editing' = <<cwd, name>>
  /\ UNCHANGED <<tree, cwd, text, strayed>>

\* openFile.mutate(name): Edit, or a click on the name.
OpenFile(o, name) ==
  /\ tree[<<cwd, name>>] # NoPath
  /\ Send(o, [NoOp EXCEPT !.kind = "read", !.file = <<cwd, name>>, !.dir = cwd])
  /\ latest' = o
  /\ UNCHANGED <<tree, cwd, editing, text, strayed>>

\* The answer opens the editor, over whatever it held.
FileOpened(o) ==
  /\ op[o].kind = "read"
  /\ editing' = <<op[o].dir, op[o].file[2]>>
  /\ text' = op[o].file
  /\ Done(o)
  /\ UNCHANGED <<tree, cwd, latest, sentOps, strayed>>

\* saveFile.mutate(): the path and the content of this moment ...
SaveFile(o) ==
  /\ editing # NoPath
  /\ Send(o, [NoOp EXCEPT !.kind = "save", !.file = editing, !.text = text])
  /\ UNCHANGED <<tree, cwd, editing, text, latest, strayed>>

\* ... the node writes the file ...
FileWritten(o) ==
  /\ op[o].kind = "save" /\ ~op[o].sent
  /\ tree' = [tree EXCEPT ![op[o].file] = op[o].text]
  /\ op' = [op EXCEPT ![o].sent = TRUE]
  /\ UNCHANGED <<cwd, editing, text, latest, sentOps, strayed>>

\* ... and the answer closes the editor, whatever it shows by now.
FileSaved(o) ==
  /\ op[o].kind = "save" /\ op[o].sent
  /\ editing' = NoPath
  /\ Done(o)
  /\ UNCHANGED <<tree, cwd, text, latest, sentOps, strayed>>

CloseEditor ==
  /\ editing # NoPath /\ editing' = NoPath
  /\ UNCHANGED <<tree, cwd, text, op, latest, sentOps, strayed>>

\* A request fails; it may have been carried out.
FileOpFailed(o) ==
  /\ op[o] # NoOp
  /\ Done(o)
  /\ UNCHANGED <<tree, cwd, editing, text, latest, sentOps, strayed>>

\* rename and removeEntry, in the directory of the click.
Rename(name, new) ==
  /\ tree[<<cwd, name>>] # NoPath /\ name # new /\ sentOps < MaxFileOps
  /\ tree' = [tree EXCEPT ![<<cwd, name>>] = NoPath, ![<<cwd, new>>] = tree[<<cwd, name>>]]
  /\ sentOps' = sentOps + 1
  /\ UNCHANGED <<cwd, editing, text, op, latest, strayed>>

RemoveEntry(name) ==
  /\ tree[<<cwd, name>>] # NoPath /\ sentOps < MaxFileOps
  /\ tree' = [tree EXCEPT ![<<cwd, name>>] = NoPath]
  /\ sentOps' = sentOps + 1
  /\ UNCHANGED <<cwd, editing, text, op, latest, strayed>>

\* upload, and create of an empty file: the files go one by one to the
\* directory shown when it began; one that fails does not stop the others.
Upload(o, name) ==
  /\ Send(o, [NoOp EXCEPT !.kind = "upload", !.file = <<cwd, name>>, !.text = <<cwd, name>>])
  /\ UNCHANGED <<tree, cwd, editing, text, latest, strayed>>

Uploaded(o, more) ==
  /\ op[o].kind = "upload"
  /\ tree' = [tree EXCEPT ![op[o].file] = op[o].text]
  /\ IF more = op[o].file[2] THEN Done(o)
     ELSE LET next == <<op[o].file[1], more>> IN
          op' = [op EXCEPT ![o].file = next, ![o].text = next]
  /\ UNCHANGED <<cwd, editing, text, latest, sentOps, strayed>>

FilesInit ==
  /\ tree = [p \in Paths |-> p]
  /\ cwd = CHOOSE d \in Dirs : TRUE
  /\ editing = NoPath /\ text = NoPath
  /\ op = [o \in FileOps |-> NoOp]
  /\ latest \in FileOps
  /\ sentOps = 0
  /\ strayed = FALSE

FilesNext ==
  \/ \E d \in Dirs : Navigate(d)
  \/ CloseEditor
  \/ \E o \in FileOps :
       \/ FileOpened(o) \/ SaveFile(o) \/ FileWritten(o) \/ FileSaved(o) \/ FileOpFailed(o)
       \/ \E name \in Names : OpenFile(o, name) \/ Upload(o, name) \/ Uploaded(o, name)
  \/ \E name \in Names : RemoveEntry(name) \/ \E new \in Names : Rename(name, new)

FilesSpec == FilesInit /\ [][FilesNext]_filesVars

-----------------------------------------------------------------------------
(* FilesTab: what the editor is about to write into a file was read from   *)
(* that file, and so was what it holds now, however the answers to several *)
(* clicks cross, unless the directory changed while a file was being read: *)
(* then the file is filed under the directory shown when it arrives.       *)
EditsGoBack ==
  \/ strayed
  \/ /\ editing # NoPath => text = editing
     /\ \A o \in FileOps : op[o].kind = "save" => op[o].text = op[o].file
=============================================================================
