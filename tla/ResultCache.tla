----------------------------- MODULE ResultCache -----------------------------
(***************************************************************************)
(* The value-level part of pyqa.cache.result_store.ResultCache: what one   *)
(* entry holds and when it answers a request.  The modules that use it     *)
(* decide when the file system is looked at.                               *)
(*                                                                         *)
(* A file system is a function from files to stamps.  A stamp stands for   *)
(* the (mtime_ns, size) pair the code records; a write gives its file a    *)
(* new one, so that a stamp also names the content the file had.           *)
(***************************************************************************)
EXTENDS Integers

\* path.stat() of every file of a request: _collect_file_states
FileStates(disk, files) == [f \in files |-> disk[f]]

\* MUTANT: only the paths are compared.
SamePaths(current, stored) == DOMAIN current = DOMAIN stored

\* Length, paths, mtime and size all agree: _states_match
StatesMatch(current, stored) == current = stored

\* The payload of ResultCache.store: the outcome, the metrics that came with
\* it, and the states of the files AT THE TIME OF THE STORE.
NewEntry(outcome, metrics, disk, files) ==
  [outcome |-> outcome, metrics |-> metrics, states |-> FileStates(disk, files)]

\* ResultCache.load answers with the entry of the key.
Hit(entries, key, disk, files) ==
  /\ key \in DOMAIN entries
  /\ StatesMatch(FileStates(disk, files), entries[key].states)

\* dict assignment, used for every mapping keyed by order, path or digest
Put(fn, key, value) ==
  [x \in DOMAIN fn \cup {key} |-> IF x = key THEN value ELSE fn[x]]
=============================================================================
