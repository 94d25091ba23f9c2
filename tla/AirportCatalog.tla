--------------------------- MODULE AirportCatalog ---------------------------
(***************************************************************************)
(* internal/openflights: Load and ensureCached.  Every program that        *)
(* searches loads airports.dat and routes.dat when it starts, and downloads *)
(* a file that is not in the cache directory, which they share.            *)
(*                                                                         *)
(* A file is the set of its pieces that have been written.  Nothing locks  *)
(* it: os.Create empties a file that another process is still writing, and *)
(* each writer goes on at its own offset.                                  *)
(***************************************************************************)
EXTENDS Naturals

CONSTANTS
  Starter,    \* processes that load the catalog
  Pieces,     \* pieces a file arrives in
  MaxFaults   \* bound: failures in one behavior

ASSUME PiecesAssumption == Pieces \in Nat \ {0}
ASSUME MaxFaultsAssumption == MaxFaults \in Nat

VARIABLES
  files,   \* the cache directory: the pieces of each file that exists
  loader,  \* what each process is doing about its next file
  broken,  \* history: the files of which a download has broken off
  faults   \* failures so far

catalogVars == <<files, loader, broken>>

File == {"airports.dat", "routes.dat"}
Piece == 1 .. Pieces

Loader ==
  [pc : {"stat", "get", "create", "write", "loaded", "failed"},
   file : File, next : 1 .. Pieces + 1]

AtStart == [pc |-> "stat", file |-> "airports.dat", next |-> 1]

CatalogInit ==
  /\ files = [f \in {} |-> {}]
  /\ loader = [s \in Starter |-> AtStart]
  /\ broken = {}

LoaderIs(s, pc) == loader[s].pc = pc
LoaderGoes(s, l) == loader' = [loader EXCEPT ![s] = l]

\* The airports come first, then the routes.
Cached(l) ==
  IF l.file = "airports.dat" THEN [AtStart EXCEPT !.file = "routes.dat"]
  ELSE [l EXCEPT !.pc = "loaded"]

EmptyFile(name) ==
  files' = [f \in DOMAIN files \cup {name} |-> IF f = name THEN {} ELSE files[f]]

\* A file that exists is taken for a file that is there.
StatMutantCreates(s) ==
  /\ LoaderIs(s, "stat")
  /\ LoaderGoes(s, IF loader[s].file \in DOMAIN files THEN Cached(loader[s])
                   ELSE [loader[s] EXCEPT !.pc = "get"])
  /\ IF loader[s].file \in DOMAIN files THEN UNCHANGED files ELSE EmptyFile(loader[s].file)
  /\ UNCHANGED <<broken, faults>>
Stat(s) ==
  /\ LoaderIs(s, "stat")
  /\ LoaderGoes(s, IF loader[s].file \in DOMAIN files THEN Cached(loader[s])
                   ELSE [loader[s] EXCEPT !.pc = "get"])
  /\ UNCHANGED <<files, broken, faults>>

\* http.Get has the head of the answer; the body comes while it is written.
Get(s) ==
  /\ LoaderIs(s, "get")
  /\ LoaderGoes(s, [loader[s] EXCEPT !.pc = "create"])
  /\ UNCHANGED <<files, broken, faults>>

\* os.Create: the file is there, and empty, whoever else is writing it.
Create(s) ==
  /\ LoaderIs(s, "create")
  /\ EmptyFile(loader[s].file)
  /\ LoaderGoes(s, [loader[s] EXCEPT !.pc = "write"])
  /\ UNCHANGED <<broken, faults>>

\* ReadFrom, piece by piece.
Write(s) ==
  /\ LoaderIs(s, "write")
  /\ LET l == loader[s]
     IN /\ files' = [files EXCEPT ![l.file] = @ \cup {l.next}]
        /\ LoaderGoes(s, IF l.next = Pieces THEN Cached([l EXCEPT !.next = @ + 1])
                         ELSE [l EXCEPT !.next = @ + 1])
  /\ UNCHANGED <<broken, faults>>

Failure == faults < MaxFaults /\ faults' = faults + 1

\* The download fails, the connection breaks off or the process stops; what has
\* been written stays.
Fails(s) ==
  /\ loader[s].pc \in {"get", "create", "write"}
  /\ Failure
  /\ LoaderGoes(s, [loader[s] EXCEPT !.pc = "failed"])
  /\ broken' = IF LoaderIs(s, "write") THEN broken \cup {loader[s].file} ELSE broken
  /\ UNCHANGED files

\* Load returned an error, which ends the program; somebody starts it again.
StartAgain(s) ==
  /\ LoaderIs(s, "failed")
  /\ LoaderGoes(s, AtStart)
  /\ UNCHANGED <<files, broken, faults>>

Load(s) == Stat(s) \/ Get(s) \/ Create(s) \/ Write(s)

CatalogNext == \E s \in Starter : Load(s) \/ Fails(s) \/ StartAgain(s)

-----------------------------------------------------------------------------

Writing(f) == \E s \in Starter : LoaderIs(s, "write") /\ loader[s].file = f

\* A file that nobody is writing is whole, however many processes started side
\* by side and emptied it under each other, unless one of its downloads broke
\* off: then what is there is taken for the file ever after
\* (openflights.go, ensureCached).
FilesWholeAtRest ==
  \A f \in DOMAIN files \ broken : ~Writing(f) => files[f] = Piece
=============================================================================
