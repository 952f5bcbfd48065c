----------------------------- MODULE HashScan ------------------------------
(***************************************************************************)
(* The main loop of support/download/check-hash, one line of a .hash file  *)
(* per step: which files count, which lines are read, when the script      *)
(* stops and with which exit code.                                         *)
(***************************************************************************)
EXTENDS CheckHash

CONSTANTS
  Data,       \* the contents a download may have
  MaxFiles,   \* bound: .hash files given to one call
  MaxLines    \* bound: lines of one .hash file

ASSUME BoundsAssumption == MaxFiles \in Nat /\ MaxLines \in Nat

VARIABLES
  hfiles,      \* the .hash files named on the command line
  noHash,      \* the file is listed in BR_NO_CHECK_HASH_FOR
  file,        \* the file to check
  i,           \* the .hash file being read
  k,           \* its next line, 0 before the file is opened
  nb_h_files,  \* .hash files that exist
  nb_checks,   \* lines that matched
  code         \* the exit code, or -1 while the script runs

scanVars == <<hfiles, noHash, file, i, k, nb_h_files, nb_checks, code>>
input == <<hfiles, noHash, file>>

Running == 0 - 1

ScanInit ==
  /\ hfiles \in UNION {[1..n -> HashFiles(Data, MaxLines)] : n \in 0..MaxFiles}
  /\ noHash \in BOOLEAN
  /\ file \in [data : Data, whole : BOOLEAN]
  /\ i = 1 /\ k = 0
  /\ nb_h_files = 0 /\ nb_checks = 0
  /\ code = Running

(* [ -f "${h_file}" ] || continue *)
SkipMissing ==
  /\ code = Running /\ i <= Len(hfiles)
  /\ ~hfiles[i].exists
  /\ i' = i + 1
  /\ UNCHANGED <<input, k, nb_h_files, nb_checks, code>>

OpenFile ==
  /\ code = Running /\ i <= Len(hfiles)
  /\ hfiles[i].exists /\ k = 0
  /\ nb_h_files' = nb_h_files + 1
  /\ k' = 1
  /\ UNCHANGED <<input, i, nb_checks, code>>

(* One turn of `while read -r t h f` and of its case statement.            *)
ReadLine ==
  /\ code = Running /\ i <= Len(hfiles)
  /\ k > 0 /\ k <= ReadableLines(hfiles[i])
  /\ LET line   == hfiles[i].lines[k]
         status == LineStatus(line, file)
     IN \/ /\ ~line.about
           /\ UNCHANGED <<nb_checks, code>>
        \/ /\ line.about /\ status = 0
           /\ nb_checks' = nb_checks + 1
           /\ UNCHANGED code
        \/ /\ line.about /\ status # 0
           /\ code' = status
           /\ UNCHANGED nb_checks
  /\ k' = k + 1
  /\ UNCHANGED <<input, i, nb_h_files>>

(* Mutant: the matches are counted for each .hash file separately.         *)
EndOfFile_CountsPerFile ==
  /\ code = Running /\ i <= Len(hfiles)
  /\ k > 0 /\ k > ReadableLines(hfiles[i])
  /\ i' = i + 1 /\ k' = 0
  /\ nb_checks' = 0
  /\ UNCHANGED <<input, nb_h_files, code>>

EndOfFile ==
  /\ code = Running /\ i <= Len(hfiles)
  /\ k > 0 /\ k > ReadableLines(hfiles[i])
  /\ i' = i + 1 /\ k' = 0
  /\ UNCHANGED <<input, nb_h_files, nb_checks, code>>

Conclude ==
  /\ code = Running /\ i > Len(hfiles)
  /\ code' = IF nb_h_files > 0 /\ nb_checks = 0 /\ ~noHash THEN 3 ELSE 0
  /\ UNCHANGED <<input, i, k, nb_h_files, nb_checks>>

ScanNext == SkipMissing \/ OpenFile \/ ReadLine \/ EndOfFile \/ Conclude

ScanSpec == ScanInit /\ [][ScanNext]_scanVars

-----------------------------------------------------------------------------
(* Line by line, over several files and with an early exit at the first
   failing line, the loop computes the function that the rest of the
   download infrastructure relies on.  That is what the header (check-hash:12-19)
   says of all the lines, unless the last line of a .hash file is about the
   file and does not end in a newline: check-hash:82 drops it.            *)
ScanComputesVerdict ==
  code # Running =>
    /\ code = ExitCode(hfiles, noHash, file)
    /\ ~LastLineDropped(hfiles) => code = Verdict(hfiles, noHash, file)
=============================================================================
