----------------------------- MODULE MCTftpTemp -----------------------------
(* TftpTemp for TLC: two sessions that may share a second or not, and every   *)
(* text of at most two characters. The sessions are alike.                    *)
EXTENDS TftpTemp, SequencesExt

ShortTexts == SeqOf(Chars, 2)
Symmetry == Permutations(Sessions)
=============================================================================
