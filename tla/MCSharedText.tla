---------------------------- MODULE MCSharedText ----------------------------
EXTENDS SharedText

\* The whole of a short text, the middle of a longer one, and nothing between two characters.
MCRegions == {<<0, 2>>, <<1, 2>>, <<1, 1>>}
=============================================================================
