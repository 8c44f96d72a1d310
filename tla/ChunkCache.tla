----------------------------- MODULE ChunkCache -----------------------------
(***************************************************************************)
(* DiskCache: ranges of chunks kept as files, and an index of them in      *)
(* memory. The index is read and written under a lock that no call holds   *)
(* while it opens, writes or deletes a file, except for the rename that    *)
(* gives a new file its name. An item is identified by its key and range:  *)
(* the content of a xorb is fixed, so its length and checksum are, too.    *)
(***************************************************************************)
EXTENDS Integers, FiniteSets, FiniteSetsExt

CONSTANTS
  Users,         \* tasks that call get and then, after a miss, put
  Items,         \* ranges of chunks: [key, start, end]
  Capacity

ASSUME CacheAssumption ==
  /\ \A i \in Items : i.start \in Nat /\ i.end \in Nat /\ i.start < i.end
  /\ Capacity \in Nat \ {0}

VARIABLES
  want,          \* the item each user asks for
  files,         \* what is on disk under the name of each item
  items,         \* CacheState.inner
  num_items,
  total_bytes,
  checked,       \* items loaded at the start whose checksum a get has found right
  job            \* per user, the step of its get or put

cvars == <<want, files, items, num_items, total_bytes, checked, job>>

Contents == {"absent", "good", "bad", "short"}

\* A header and the data: one unit, and one for each chunk.
Len(i) == 1 + (i.end - i.start)
Total(S) == MapThenSumSet(Len, S)
ItemsOf(S) == {c.item : c \in S}

\* A VerificationCell. Clones of it share the flag, which a put sets from the
\* start; the cells made by one load differ in their items.
Cell(i, origin) == [item |-> i, origin |-> origin]
is_verified(c) == c.origin = "put" \/ c.item \in checked

find_match(i) ==
  {c \in items : c.item.key = i.key /\ c.item.start <= i.start /\ i.end <= c.item.end}

-----------------------------------------------------------------------------
\* The work of a user: the cell it has cloned, the content of the file it has
\* opened, the items it has evicted and not yet deleted.
Job(at, cell, content, evicted, writing) ==
  [at |-> at, cell |-> cell, content |-> content, evicted |-> evicted, writing |-> writing]
NoCell == Cell([key |-> "none", start |-> 0, end |-> 0], "none")
JobIs(u, at) == job[u].at = at
Goto(u, at) == job' = [job EXCEPT ![u].at = at]
EndJob(u, answer) == job' = [job EXCEPT ![u] = Job(answer, NoCell, "absent", {}, FALSE)]

EmptyCache ==
  /\ files = [i \in Items |-> "absent"]
  /\ items = {} /\ num_items = 0 /\ total_bytes = 0 /\ checked = {}
  /\ job = [u \in Users |-> Job("idle", NoCell, "absent", {}, FALSE)]

UnchangedIndex == UNCHANGED <<want, items, num_items, total_bytes>>

-----------------------------------------------------------------------------
\* get_impl
BeginGet(u) ==
  /\ job' = [job EXCEPT ![u] = Job("find", NoCell, "absent", {}, FALSE)]
  /\ UNCHANGED <<files, checked>> /\ UnchangedIndex

Find(u) ==
  /\ JobIs(u, "find")
  /\ \/ find_match(want[u]) = {} /\ EndJob(u, "miss")
     \/ \E c \in find_match(want[u]) : job' = [job EXCEPT ![u].at = "open", ![u].cell = c]
  /\ UNCHANGED <<files, checked>> /\ UnchangedIndex

\* Mutant: a get that finds no file looks for another item, and leaves this one.
OpenOrRetry(u) ==
  LET content == files[job[u].cell.item]
  IN  /\ JobIs(u, "open")
      /\ job' = [job EXCEPT ![u].at = IF content = "absent" THEN "find" ELSE "opened", ![u].content = content]
      /\ UNCHANGED <<files, checked>> /\ UnchangedIndex

\* What is read later is the file that was opened, whatever happens to its name.
Open(u) ==
  LET content == files[job[u].cell.item]
  IN  /\ JobIs(u, "open")
      /\ job' = [job EXCEPT ![u].at = IF content = "absent" THEN "remove" ELSE "opened", ![u].content = content]
      /\ UNCHANGED <<files, checked>> /\ UnchangedIndex

\* A damaged file may still have a header that can be read. In a short one the
\* range asked for may be there, or its end missing: an error, to the caller a miss.
ReadFile(u) ==
  LET j == job[u]
  IN  /\ JobIs(u, "opened")
      /\ \/ /\ is_verified(j.cell) \/ j.content = "good"
            /\ checked' = IF j.cell.origin = "load" THEN checked \cup {j.cell.item} ELSE checked
            /\ \/ EndJob(u, IF j.content = "bad" THEN "damaged" ELSE "hit")
               \/ j.content = "short" /\ EndJob(u, "miss")
               \/ j.content \in {"bad", "short"} /\ Goto(u, "remove")
         \/ /\ ~is_verified(j.cell) /\ j.content # "good"
            /\ Goto(u, "remove") /\ UNCHANGED checked
      /\ UNCHANGED files /\ UnchangedIndex

-----------------------------------------------------------------------------
\* remove_item: out of the index, then off the disk. The item may be gone from
\* the index by now; its file is deleted all the same when the key is gone, too.
Resume(u) == IF job[u].writing THEN "look" ELSE "find"


remove_item(u) ==
  LET i == job[u].cell.item
      present == \E c \in items : c.item = i
      key_present == \E c \in items : c.item.key = i.key
  IN  /\ JobIs(u, "remove")
      /\ items' = {c \in items : c.item # i}
      /\ num_items' = IF present THEN num_items - 1 ELSE num_items
      /\ total_bytes' = IF present THEN total_bytes - Len(i) ELSE total_bytes
      /\ Goto(u, IF key_present /\ ~present THEN Resume(u) ELSE "delete")
      /\ UNCHANGED <<want, files, checked>>

\* Deleting fails when another task has just put a file into the directory that
\* check_remove_dir has found empty.
DeleteFile(u) ==
  /\ JobIs(u, "delete")
  /\ files' = [files EXCEPT ![job[u].cell.item] = "absent"]
  /\ Goto(u, Resume(u))
  /\ UNCHANGED checked /\ UnchangedIndex

FailDelete(u) ==
  /\ JobIs(u, "delete")
  /\ files' = [files EXCEPT ![job[u].cell.item] = "absent"]
  /\ EndJob(u, IF job[u].writing THEN "stored" ELSE "miss")
  /\ UNCHANGED checked /\ UnchangedIndex

-----------------------------------------------------------------------------
\* put_impl
BeginPut(u) ==
  /\ job' = [job EXCEPT ![u] = Job("look", NoCell, "absent", {}, TRUE)]
  /\ UNCHANGED <<files, checked>> /\ UnchangedIndex

\* An item too large for the cache is refused.
Look(u) ==
  /\ JobIs(u, "look")
  /\ \/ \E c \in find_match(want[u]) : job' = [job EXCEPT ![u].at = "validate", ![u].cell = c]
     \/ /\ find_match(want[u]) = {}
        /\ IF Len(want[u]) > Capacity THEN EndJob(u, "stored") ELSE Goto(u, "write")
  /\ UNCHANGED <<files, checked>> /\ UnchangedIndex

\* validate_match reads the whole file, whether or not the item is verified.
validate_match(u) ==
  /\ JobIs(u, "validate")
  /\ IF files[job[u].cell.item] = "good" THEN EndJob(u, "stored") ELSE Goto(u, "remove")
  /\ UNCHANGED <<files, checked>> /\ UnchangedIndex

\* The file is written under a temporary name, without the lock.
Write(u) ==
  /\ JobIs(u, "write")
  /\ Goto(u, "lock")
  /\ UNCHANGED <<files, checked>> /\ UnchangedIndex

\* After a failed write SafeFileCreator::drop closes the file and renames it to
\* the name of the item, whatever has been written of it.
FailWrite(u) ==
  /\ JobIs(u, "write")
  /\ files' \in {files, [files EXCEPT ![want[u]] = "short"]}
  /\ EndJob(u, "stored")
  /\ UNCHANGED checked /\ UnchangedIndex

\* evict_to_capacity: one item after the other, chosen at random, until the rest
\* fits.
Evictions(limit) ==
  {E \in SUBSET items :
     /\ total_bytes - Total(ItemsOf(E)) <= limit \/ E = items
     /\ E = {} \/ \E last \in E : total_bytes - Total(ItemsOf(E \ {last})) > limit}

Commit(u) ==
  LET i == want[u]
  IN  /\ JobIs(u, "lock")
      /\ find_match(i) = {}
      /\ files' = [files EXCEPT ![i] = "good"]
      /\ \E E \in Evictions(Capacity - Len(i)) :
           /\ items' = (items \ E) \cup {Cell(i, "put")}
           /\ num_items' = num_items - Cardinality(E) + 1
           /\ total_bytes' = total_bytes - Total(ItemsOf(E)) + Len(i)
           /\ IF E = {} THEN EndJob(u, "stored") ELSE job' = [job EXCEPT ![u].at = "evicted", ![u].evicted = ItemsOf(E)]
      /\ UNCHANGED <<want, checked>>

\* Another put was faster.
AbortWrite(u) ==
  /\ JobIs(u, "lock")
  /\ find_match(want[u]) # {}
  /\ EndJob(u, "stored")
  /\ UNCHANGED <<files, checked>> /\ UnchangedIndex

\* The files of the evicted items go after the lock is released. An error leaves
\* the others on disk.
DeleteEvicted(u) ==
  /\ JobIs(u, "evicted")
  /\ \E i \in job[u].evicted :
       /\ files' = [files EXCEPT ![i] = "absent"]
       /\ IF job[u].evicted = {i} THEN EndJob(u, "stored") ELSE job' = [job EXCEPT ![u].evicted = @ \ {i}]
  /\ UNCHANGED checked /\ UnchangedIndex

FailEvicted(u) ==
  /\ JobIs(u, "evicted")
  /\ \E i \in job[u].evicted : files' \in {files, [files EXCEPT ![i] = "absent"]}
  /\ EndJob(u, "stored")
  /\ UNCHANGED checked /\ UnchangedIndex

-----------------------------------------------------------------------------
\* A new process finds the files as the last one left them. A put that was
\* dropped while it waited for the lock has renamed its file; after a crash a
\* file may have lost its content.
Remains ==
  {f \in [Items -> Contents] : \A i \in Items :
     \/ f[i] = files[i]
     \/ files[i] = "good" /\ f[i] \in {"bad", "short"}
     \/ f[i] = "good" /\ \E u \in Users : JobIs(u, "lock") /\ want[u] = i}

\* Mutant: the items that are loaded count as verified.
LoadedAndTrusted(S) == {Cell(i, "put") : i \in S}

Loaded(S) == {Cell(i, "load") : i \in S}

\* initialize_state walks over the directories and stops at twice the capacity. A
\* file of the wrong length is deleted, one that no cache would hold is skipped.
Initialize(f) ==
  \E visited \in SUBSET {i \in Items : f[i] # "absent"} :
    LET found == {i \in visited : f[i] # "short" /\ Len(i) <= Capacity}
    IN  /\ \/ visited = {i \in Items : f[i] # "absent"}
           \/ Total(found) >= 2 * Capacity
        /\ found = {} \/ \E last \in found : Total(found \ {last}) < 2 * Capacity
        /\ items' = Loaded(found)
        /\ num_items' = Cardinality(found)
        /\ total_bytes' = Total(found)
        /\ files' = [i \in Items |-> IF i \in visited /\ f[i] = "short" THEN "absent" ELSE f[i]]

RestartCache ==
  /\ \E f \in Remains : Initialize(f)
  /\ checked' = {} /\ UNCHANGED want
  /\ job' = [u \in Users |-> Job("idle", NoCell, "absent", {}, FALSE)]

GetStep(u) == Find(u) \/ Open(u) \/ ReadFile(u)
RemoveStep(u) == remove_item(u) \/ DeleteFile(u)
PutStep(u) == Look(u) \/ validate_match(u) \/ Write(u) \/ Commit(u) \/ AbortWrite(u) \/ DeleteEvicted(u)
CacheFails(u) == FailDelete(u) \/ FailWrite(u) \/ FailEvicted(u)
CacheStep(u) == GetStep(u) \/ RemoveStep(u) \/ PutStep(u)

-----------------------------------------------------------------------------
\* An item that gets read without computing its checksum has no damaged file, even
\* when files were damaged by a crash and items are removed and stored again while
\* others hold clones of their cells.
TrustedIsIntact == \A c \in items : is_verified(c) => files[c.item] # "bad"

=============================================================================
