---------------------------- MODULE MCHidReports ----------------------------
\* Three handler threads dispatch two keys of one report and one of the other;
\* of an array the first two places are in use, which three handlers fill.
EXTENDS HidReports, TLC
SomeStrokes == { <<"csmr", 181>>, <<"csmr", 234>>, <<"tc", 4>> }
Symmetry == Permutations(Handlers)
=============================================================================
