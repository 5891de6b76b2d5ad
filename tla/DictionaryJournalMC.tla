------------------------- MODULE DictionaryJournalMC -------------------------
(***************************************************************************)
(* Small instances of DictionaryJournal for TLC.                           *)
(***************************************************************************)
EXTENDS DictionaryJournal, TLC

CONSTANTS e1, w1, w2, p1

NoWords == {}
OneEnglish == {e1}
OneWubi == {w1}
TwoWubi == {w1, w2}
OnePinyin == {p1}

WubiSymmetry == Permutations(TwoWubi)
=============================================================================
