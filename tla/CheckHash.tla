----------------------------- MODULE CheckHash -----------------------------
(***************************************************************************)
(* support/download/check-hash as a function: the exit code of the script  *)
(* for one downloaded file and the .hash files it is given.  HashScan.tla  *)
(* models the loop that computes it; DlWrapper.tla uses the function.      *)
(*                                                                         *)
(* A file is a record [data, whole]: whole is FALSE for a file of which    *)
(* only a beginning was written, which has no checksum of a complete file. *)
(* A line of a .hash file is a record [about, algo, sum]: "about" says     *)
(* whether its third word is the name of the checked file (comments, empty *)
(* lines and the lines of other files have about = FALSE), "algo" whether  *)
(* its first word is a checksum the script knows, "sum" the data whose     *)
(* checksum the line holds.                                                *)
(***************************************************************************)
EXTENDS Naturals, Sequences

Lines(Data) == [about : BOOLEAN, algo : {"known", "unknown"}, sum : Data]

(* A .hash file; "terminated" says that its last line ends in a newline.   *)
MissingFile == [exists |-> FALSE, terminated |-> TRUE, lines |-> <<>>]

HashFiles(Data, MaxLines) ==
  {MissingFile} \cup
  [exists : {TRUE}, terminated : BOOLEAN,
   lines : UNION {[1..n -> Lines(Data)] : n \in 0..MaxLines}]

(* `while read -r t h f` leaves the loop on a last line without a newline:
   read has filled t, h and f but returns a failure.                       *)
ReadableLines(hf) ==
  IF hf.terminated \/ hf.lines = <<>> THEN Len(hf.lines) ELSE Len(hf.lines) - 1

Matches(line, file) == file.whole /\ line.sum = file.data

(* What check_one_hash says of one line: the status it exits with, or 0.   *)
LineStatus(line, file) ==
  CASE line.algo = "unknown" -> 4
    [] line.algo # "unknown" /\ Matches(line, file) -> 0
    [] OTHER -> 2

ExistingFiles(hfiles) == {i \in DOMAIN hfiles : hfiles[i].exists}

(* The places <<file, line>> of the lines about the file, and of those of them
   that are checked.                                                       *)
LinesAbout(hf) == {k \in 1..Len(hf.lines) : hf.lines[k].about}

LinesRead(hf) == {k \in 1..ReadableLines(hf) : hf.lines[k].about}

AllLines(hfiles) ==
  UNION {{<<i, k>> : k \in LinesAbout(hfiles[i])} : i \in ExistingFiles(hfiles)}

CheckedLines(hfiles) ==
  UNION {{<<i, k>> : k \in LinesRead(hfiles[i])} : i \in ExistingFiles(hfiles)}

(* The last line of a .hash file is about the file and has no newline.     *)
LastLineDropped(hfiles) ==
  \E i \in ExistingFiles(hfiles) :
    /\ ~hfiles[i].terminated /\ hfiles[i].lines # <<>>
    /\ hfiles[i].lines[Len(hfiles[i].lines)].about

Before(a, b) == a[1] < b[1] \/ (a[1] = b[1] /\ a[2] < b[2])

FailingLines(places, hfiles, file) ==
  {at \in places : LineStatus(hfiles[at[1]].lines[at[2]], file) # 0}

(* The first failing line decides; noHash is the file's membership of
   BR_NO_CHECK_HASH_FOR.                                                   *)
CodeFor(places, hfiles, noHash, file) ==
  LET failing == FailingLines(places, hfiles, file)
      first   == CHOOSE at \in failing : \A b \in failing : b = at \/ Before(at, b)
  IN IF failing # {}
     THEN LineStatus(hfiles[first[1]].lines[first[2]], file)
     ELSE IF ExistingFiles(hfiles) # {} /\ places = {} /\ ~noHash
          THEN 3 ELSE 0

(* What check-hash:12-19 promises, and what the script does.               *)
Verdict(hfiles, noHash, file) == CodeFor(AllLines(hfiles), hfiles, noHash, file)

ExitCode(hfiles, noHash, file) == CodeFor(CheckedLines(hfiles), hfiles, noHash, file)
=============================================================================
