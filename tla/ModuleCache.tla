----------------------------- MODULE ModuleCache ----------------------------
(***************************************************************************)
(* What clang_pipeline keeps: the modules of a run by name (fileCache) and *)
(* the four files of every module on disk, through which one run of the    *)
(* wrapper hands its modules to a later one.  Writers take a lock file per *)
(* module; readers take none.                                              *)
(*                                                                         *)
(* A module, its annotations, types and variables are each the set of      *)
(* their origins: <<name, run>> for the source of that name as compiled by *)
(* that run.  The module that drives the operations is Gestalt.            *)
(***************************************************************************)
EXTENDS Naturals, Sequences

CONSTANTS Runs,       \* processes of the wrapper
          Objects,    \* names of object files and executables
          Linked,     \* linkerOutputFile, the name no file has
          Passes,     \* stands for llvm.run() in an origin
          None        \* no lock owner, nothing read or written

ASSUME LinkedAssumption == Linked \notin Objects
ASSUME NoneAssumption == None \notin Runs
ASSUME NothingAssumption == None \notin [name : Objects, step : 0 .. 8]

VARIABLES
    cache,      \* fileCache of each run
    reading,    \* the module a run is in readFor for, and what it has of it
    writing,    \* the module a run is in writeFor for, and how far it got
    files,      \* the four files of every module: Absent, Torn or Content
    lock,       \* owner of the lock file of every module
    unlocked    \* modules that were ever written without the lock

cacheVars == <<cache, reading, writing, files, lock, unlocked>>
disk == <<files, lock, unlocked>>

Names == Objects \cup {Linked}
Kinds == {"bc", "anno", "types", "vars"}
Origins == (Objects \cup {Passes}) \X Runs
PortableModules == [Kinds -> SUBSET Origins]
Whole(origins) == [k \in Kinds |-> origins]
Empty == Whole({})

\* A file is absent, open for writing and not yet flushed, or has the
\* contents that one run gave it.
Absent == [is |-> "absent"]
Torn == [is |-> "torn"]
Content(r, p) == [is |-> "content", by |-> r, part |-> p]
FileStates == {Absent, Torn}
    \cup [is : {"content"}, by : Runs, part : SUBSET Origins]

ReadOrder == <<"bc", "anno", "types", "vars">>

\* The streams are opened in this order; they are locals of the loop body,
\* so that they are flushed in the opposite one and the lock goes last.
OpenOrder == <<"bc", "anno", "vars", "types">>
FlushOrder == <<"types", "vars", "anno", "bc">>

InitCache ==
    /\ cache = [r \in Runs |-> <<>>]
    /\ reading = [r \in Runs |-> None]
    /\ writing = [r \in Runs |-> None]
    /\ files = [o \in Objects |-> [k \in Kinds |-> Absent]]
    /\ lock = [o \in Objects |-> None]
    /\ unlocked = {}

-----------------------------------------------------------------------------
(* fileCache                                                               *)

With(f, n, m) == [x \in DOMAIN f \cup {n} |-> IF x = n THEN m ELSE f[x]]
Without(f, n) == [x \in DOMAIN f \ {n} |-> f[x]]

Cached(r, n) == n \in DOMAIN cache[r]

Insert(r, n, m) == cache' = [cache EXCEPT ![r] = With(@, n, m)]

claim(r, n) == cache' = [cache EXCEPT ![r] = Without(@, n)]

-----------------------------------------------------------------------------
(* readFor: the four files one by one, with no lock                        *)

BeginRead(r, n) ==
    /\ reading[r] = None
    /\ ~ Cached(r, n)
    /\ n \in Objects
    /\ reading' = [reading EXCEPT ![r] = [name |-> n, got |-> <<>>]]
    /\ UNCHANGED <<cache, writing, disk>>

NextKind(r) == ReadOrder[Len(reading[r].got) + 1]
NextFile(r) == files[reading[r].name][NextKind(r)]

\* What a parser makes of a file.  Of a torn one it may make an empty module,
\* since no text is a module without definitions, or an empty message; no
\* JSON is no table.
Parsed(kind, file) ==
    IF file.is = "content" THEN {file.part}
    ELSE IF file = Torn /\ kind # "vars" THEN {{}}
    ELSE {}

Assembled(got) ==
    [k \in Kinds |-> got[CHOOSE i \in DOMAIN got : ReadOrder[i] = k]]

ReadFile(r) ==
    /\ reading[r] # None
    /\ \E part \in Parsed(NextKind(r), NextFile(r)) :
        LET got == Append(reading[r].got, part)
        IN  IF Len(got) < Len(ReadOrder)
              THEN /\ reading' = [reading EXCEPT ![r].got = got]
                   /\ UNCHANGED cache
              ELSE /\ reading' = [reading EXCEPT ![r] = None]
                   /\ Insert(r, reading[r].name, Assembled(got))
    /\ UNCHANGED <<writing, disk>>

\* A file is missing, or the bitcode cannot be parsed.
ReadNothing(r) ==
    /\ reading[r] # None
    /\ \/ NextFile(r) = Absent
       \/ NextKind(r) = "bc" /\ NextFile(r) = Torn
    /\ reading' = [reading EXCEPT ![r] = None]
    /\ UNCHANGED <<cache, writing, disk>>

\* No JSON in the table of variables: readFor goes through a null pointer.
ReadBroken(r) ==
    /\ reading[r] # None
    /\ NextKind(r) = "vars" /\ NextFile(r) = Torn

-----------------------------------------------------------------------------
(* writeFor: the four files under the lock file of the module              *)

\* Mutant: a lock file of somebody else is not looked at.
TryLockBlindly(r, n, Live) ==
    /\ writing[r] = None
    /\ lock' = [lock EXCEPT ![n] = r]
    /\ writing' = [writing EXCEPT ![r] = [name |-> n, step |-> 0]]
    /\ UNCHANGED <<cache, reading, files, unlocked>>

\* Mutant: the lock file of a dead owner is waited for.
TryLockOfTheDead(r, n, Live) ==
    /\ writing[r] = None
    /\ lock[n] = None
    /\ lock' = [lock EXCEPT ![n] = r]
    /\ writing' = [writing EXCEPT ![r] = [name |-> n, step |-> 0]]
    /\ UNCHANGED <<cache, reading, files, unlocked>>

\* The lock file of a dead owner is removed by whoever wants the lock.
\* LFS_Shared, the lock of a live owner, is waited for.
TryLock(r, n, Live) ==
    /\ writing[r] = None
    /\ lock[n] \notin Live
    /\ lock' = [lock EXCEPT ![n] = r]
    /\ writing' = [writing EXCEPT ![r] = [name |-> n, step |-> 0]]
    /\ UNCHANGED <<cache, reading, files, unlocked>>

\* LFS_Error is logged, and the files are written all the same.
LockError(r, n) ==
    /\ writing[r] = None
    /\ unlocked' = unlocked \cup {n}
    /\ writing' = [writing EXCEPT ![r] = [name |-> n, step |-> 0]]
    /\ UNCHANGED <<cache, reading, files, lock>>

OpenFile(r) ==
    /\ writing[r] # None
    /\ writing[r].step < 4
    /\ files' = [files EXCEPT ![writing[r].name][OpenOrder[writing[r].step + 1]] = Torn]
    /\ writing' = [writing EXCEPT ![r].step = @ + 1]
    /\ UNCHANGED <<cache, reading, lock, unlocked>>

FlushFile(r) ==
    /\ writing[r] # None
    /\ writing[r].step \in 4 .. 7
    /\ LET n == writing[r].name
           k == FlushOrder[writing[r].step - 3]
       IN  files' = [files EXCEPT ![n][k] = Content(r, cache[r][n][k])]
    /\ writing' = [writing EXCEPT ![r].step = @ + 1]
    /\ UNCHANGED <<cache, reading, lock, unlocked>>

\* The end of the loop body.  The entry stays in the cache; that it has been
\* written is the position of the loop in ~impl, which Gestalt keeps.
Unlock(r) ==
    /\ writing[r] # None
    /\ writing[r].step = 8
    /\ lock' = [o \in Objects |->
                  IF o = writing[r].name /\ lock[o] = r THEN None ELSE lock[o]]
    /\ writing' = [writing EXCEPT ![r] = None]
    /\ UNCHANGED <<cache, reading, files, unlocked>>

=============================================================================
