-------------------------------- MODULE Explorer --------------------------------
(***************************************************************************)
(* The file explorer of the coding view (Coding/FileExplorer.jsx,          *)
(* WorkspaceBar.jsx, the tree of store/codingStore.js) and the workspace   *)
(* that the server keeps for its user (codingWorkspaceService.js).         *)
(*                                                                         *)
(* Every request of the page is a call over one socket: the calls are      *)
(* served in order, each in one go, and answered in order.  A call that is *)
(* not answered in time fails on the page and may still be served.         *)
(***************************************************************************)
EXTENDS Naturals, Sequences

CONSTANTS
    Roots,    \* the directories a workspace may be in
    Names,    \* file names
    Refused,  \* names that lead out of the workspace, or to a likely secret
    Missing,  \* no such directory
    MaxCalls, \* BOUND: the calls under way
    MaxTurns  \* BOUND: the changes that are asked for, and those of others

ExplorerAssumption ==
    Roots # {} /\ Names # {} /\ {MaxCalls, MaxTurns} \subseteq Nat

Top == "."
Dirs == {Top, "sub"}
Ops == {"list", "root", "create", "rename", "delete", "deleteDir"}

VARIABLES
    disk,    \* disk[r][d]: the files of directory d in root r
    root,    \* the workspace that the server has configured
    calls,   \* the calls under way
    shown,   \* workspace.root of the page
    tree,    \* the listings that the page has
    turns,   \* the changes so far
    stale,   \* (ghost) directories changed by others, or by a call that was given up
    emptied  \* (ghost) the listing of the top was emptied, and not read since

vars == <<disk, root, calls, shown, tree, turns, stale, emptied>>

Listings == [known : BOOLEAN, entries : SUBSET Names, loading : BOOLEAN, error : BOOLEAN]
TreeCalls == [op : Ops, dir : Dirs, name : Names \union Refused, to : Names \union Refused,
          root : Roots, res : {"asked", "ok", "failed"}, entries : SUBSET Names,
          waits : BOOLEAN]

TypeOK ==
    /\ disk \in [Roots -> [Dirs -> (SUBSET Names) \union {Missing}]]
    /\ {root, shown} \subseteq Roots
    /\ calls \in Seq(TreeCalls) /\ Len(calls) <= MaxCalls
    /\ tree \in [Dirs -> Listings] /\ turns \in 0..MaxTurns
    /\ stale \subseteq Dirs /\ emptied \in BOOLEAN

Unknown == [known |-> FALSE, entries |-> {}, loading |-> FALSE, error |-> FALSE]

\* Workspaces are alike.
SomeRoot == CHOOSE r \in Roots : TRUE

Init ==
    /\ disk = [r \in Roots |-> [d \in Dirs |-> Names]]
    /\ root = SomeRoot /\ shown = root
    /\ calls = <<>> /\ turns = 0
    /\ tree = [d \in Dirs |-> Unknown]
    /\ stale = {} /\ emptied = FALSE

(***************************************************************************)
(* The page asks                                                           *)
(***************************************************************************)

Call(op, d, n, m, r) ==
    [op |-> op, dir |-> d, name |-> n, to |-> m, root |-> r, res |-> "asked",
     entries |-> {}, waits |-> TRUE]

SomeName == CHOOSE n \in Names : TRUE
List(d) == Call("list", d, SomeName, SomeName, shown)

Loading(d, entries) ==
    [tree EXCEPT ![d] = [known |-> TRUE, entries |-> entries, loading |-> TRUE,
                         error |-> tree[d].error]]

LoadDir(d) ==
    /\ calls' = Append(calls, List(d))
    /\ tree' = Loading(d, tree[d].entries)

\* The explorer is opened, or refreshed, or a directory is expanded that has
\* not been listed.
Browse(d) ==
    /\ Len(calls) < MaxCalls
    /\ d # Top => ~tree[d].known
    /\ LoadDir(d)
    /\ UNCHANGED <<disk, root, shown, turns, stale, emptied>>

Turn == turns < MaxTurns /\ turns' = turns + 1

SetWorkspace(r) ==
    /\ Turn /\ Len(calls) < MaxCalls
    /\ calls' = Append(calls, Call("root", Top, SomeName, SomeName, r))
    /\ UNCHANGED <<disk, root, shown, tree, stale, emptied>>

\* confirmCreate, confirmRename, handleDelete: on what the tree shows.
Change(op, d, n, m) ==
    /\ Turn /\ Len(calls) < MaxCalls
    /\ op \in {"rename", "delete"} => n \in tree[d].entries
    /\ calls' = Append(calls, Call(op, d, n, m, shown))
    /\ UNCHANGED <<disk, root, shown, tree, stale, emptied>>

(***************************************************************************)
(* The server                                                              *)
(***************************************************************************)

\* _assertNotSecret and resolveSafe, and what must exist.
Allowed(c, files) ==
    CASE c.op = "root"      -> TRUE
      [] c.op = "list"      -> files # Missing
      [] c.op = "deleteDir" -> files # Missing
      [] c.op = "create"    -> c.name \notin Refused
      [] c.op = "delete"    -> c.name \notin Refused /\ files # Missing /\ c.name \in files
      [] c.op = "rename"    -> /\ {c.name, c.to} \cap Refused = {}
                               /\ files # Missing /\ c.name \in files

\* The directory of a new file is made if need be, and a file that has the name
\* is overwritten; a rename takes the place of the file that has the new name.
Changed(c, files) ==
    CASE c.op = "create"    -> (IF files = Missing THEN {} ELSE files) \union {c.name}
      [] c.op = "rename"    -> (files \ {c.name}) \union {c.to}
      [] c.op = "delete"    -> files \ {c.name}
      [] c.op = "deleteDir" -> Missing
      [] OTHER              -> files

Serve ==
    \E i \in DOMAIN calls :
        LET c     == calls[i]
            files == disk[root][c.dir]
            ok    == Allowed(c, files)
        IN /\ c.res = "asked" /\ \A j \in 1..(i - 1) : calls[j].res # "asked"
           /\ calls' = [calls EXCEPT ![i].res = IF ok THEN "ok" ELSE "failed",
                                     ![i].entries = IF ok /\ c.op = "list"
                                                    THEN files ELSE {}]
           /\ disk' = IF ok THEN [disk EXCEPT ![root][c.dir] = Changed(c, files)] ELSE disk
           /\ root' = IF c.op = "root" THEN c.root ELSE root
           /\ stale' = IF c.op = "root" /\ c.root # root THEN Dirs
                       ELSE CASE c.op = "list" /\ c.waits  -> stale \ {c.dir}
                              [] c.op # "list" /\ ~c.waits -> stale \union {c.dir}
                              [] OTHER                     -> stale
           /\ UNCHANGED <<shown, tree, turns, emptied>>

\* The agent, or another program, changes a file.
OthersChange(d, n) ==
    /\ Turn
    /\ LET files == disk[root][d]
       IN /\ files # Missing
          /\ disk' = [disk EXCEPT ![root][d] = IF n \in files THEN files \ {n} ELSE files \union {n}]
    /\ stale' = stale \union {d}
    /\ UNCHANGED <<root, calls, shown, tree, emptied>>

(***************************************************************************)
(* The answers                                                             *)
(***************************************************************************)

Listed(c) == [known |-> TRUE, entries |-> c.entries, loading |-> FALSE, error |-> FALSE]
Failed(d) == [tree[d] EXCEPT !.known = TRUE, !.loading = FALSE, !.error = TRUE]

ListArrives(c, rest) ==
    /\ tree' = [tree EXCEPT ![c.dir] = IF c.res = "ok" THEN Listed(c) ELSE Failed(c.dir)]
    /\ calls' = rest /\ shown' = shown
    /\ emptied' = (emptied /\ c.dir # Top)

\* handleSetWorkspace; the explorer lists the top when the root is another one.
RootArrives(c, rest) ==
    /\ shown' = c.root
    /\ emptied' = TRUE
    /\ IF c.root # shown
       THEN /\ calls' = Append(rest, [List(Top) EXCEPT !.root = c.root])
            /\ tree' = [tree EXCEPT ![Top] = [Listed(c) EXCEPT !.loading = TRUE]]
       ELSE calls' = rest /\ tree' = [tree EXCEPT ![Top] = Listed(c)]

\* After a change the directory is listed again.
ChangeArrivesSlip(c, rest) ==
    /\ calls' = rest
    /\ tree' = IF c.res = "ok" /\ c.op # "create"
               THEN [tree EXCEPT ![c.dir].entries = @ \ {c.name}] ELSE tree
    /\ UNCHANGED <<shown, emptied>>

ChangeArrives(c, rest) ==
    /\ IF c.res = "ok"
       THEN LET d == IF c.op = "deleteDir" THEN Top ELSE c.dir
            IN /\ calls' = Append(rest, List(d))
               /\ tree' = Loading(d, tree[d].entries)
       ELSE calls' = rest /\ tree' = tree
    /\ UNCHANGED <<shown, emptied>>

Arrive ==
    /\ calls # <<>>
    /\ LET c == Head(calls) rest == Tail(calls)
       IN /\ c.res # "asked"
          /\ CASE ~c.waits -> calls' = rest /\ UNCHANGED <<shown, tree, emptied>>
               [] c.waits /\ c.op = "list" -> ListArrives(c, rest)
               [] c.waits /\ c.op = "root" -> RootArrives(c, rest)
               [] c.waits /\ c.op \notin {"list", "root"} -> ChangeArrives(c, rest)
    /\ UNCHANGED <<disk, root, turns, stale>>

\* 15 seconds without an answer.
GiveUp ==
    /\ \E i \in DOMAIN calls :
         LET c == calls[i]
         IN /\ c.waits /\ \A j \in 1..(i - 1) : ~calls[j].waits
            /\ calls' = [calls EXCEPT ![i].waits = FALSE]
            /\ tree' = IF c.op = "list" THEN [tree EXCEPT ![c.dir] = Failed(c.dir)] ELSE tree
            /\ stale' = stale \union IF c.op = "root" THEN Dirs ELSE {c.dir}
            /\ emptied' = (emptied /\ ~(c.op = "list" /\ c.dir = Top))
    /\ UNCHANGED <<disk, root, turns, shown>>

Next ==
    \/ \E d \in Dirs : Browse(d) \/ \E n \in Names : OthersChange(d, n)
    \/ \E d \in Dirs, n \in Names, m \in Names \union Refused :
         \/ Change("create", d, m, n) \/ Change("rename", d, n, m)
         \/ Change("delete", d, n, n)
    \/ Change("deleteDir", "sub", SomeName, SomeName)
    \/ \E r \in Roots : SetWorkspace(r)
    \/ Serve \/ Arrive \/ GiveUp

Spec == Init /\ [][Next]_vars

(***************************************************************************)
(* Properties                                                              *)
(***************************************************************************)

\* When nothing is under way, what the explorer shows of a directory is what the
\* directory holds, unless somebody else has changed it, a call was given up,
\* or the workspace is another one since it was listed.
TreeIsTheDisk ==
    calls = <<>> =>
        \A d \in Dirs \ stale :
            tree[d].known /\ ~tree[d].error /\ ~(d = Top /\ emptied) /\ disk[root][d] # Missing
                => tree[d].entries = disk[root][d]

\* "force a fresh root listing": after the workspace was set, the top is listed.
\* The code breaks it when the workspace is set to what it is already: the
\* listing is emptied, and nothing lists it again.
RootIsListedAfresh == calls = <<>> => ~emptied

\* "Create a new file ... use file_write to overwrite an existing file": to
\* create a file overwrites none.  The code breaks it.
CreateOverwritesNothing ==
    [][\A i \in DOMAIN calls :
          calls[i].op = "create" /\ calls'[i].res = "ok" /\ calls[i].res = "asked"
              => calls[i].name \notin disk[root][calls[i].dir]]_vars

================================================================================
