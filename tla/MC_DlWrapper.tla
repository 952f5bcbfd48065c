--------------------------- MODULE MC_DlWrapper ----------------------------
EXTENDS DlWrapper, TLC

CONSTANTS good, bad

MCData == {good, bad}

(* Two sites: the first one serves anything, the second the right file.    *)
MCServed == <<{good, bad}, {good}>>

MCProcessed == [d \in MCData |-> d]

Entry(d) == [about |-> TRUE, algo |-> "known", sum |-> d]
OddEntry == [about |-> TRUE, algo |-> "unknown", sum |-> good]
HashFile(lines) == [exists |-> TRUE, terminated |-> TRUE, lines |-> lines]

(* A .hash file with a hash, with none for this archive, with a hash of an
   unknown type, and no .hash file at all.                                 *)
MCHashes == {<<HashFile(<<Entry(good)>>)>>, <<HashFile(<<>>)>>,
             <<HashFile(<<OddEntry>>)>>, <<MissingFile>>}

(* Two trees, of one age or of different ones, whose hashes contradict each
   other: every combination, the same hashes included.                     *)
MCOtherHashes == {<<HashFile(<<Entry(good)>>)>>, <<HashFile(<<Entry(bad)>>)>>}

MCNoCopy == {NoFile}
MCCopies == {NoFile, WholeFile(good), WholeFile(bad)}
=============================================================================
