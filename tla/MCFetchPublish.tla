--------------------------- MODULE MCFetchPublish ---------------------------
\* A small instance of FetchPublish.  Articles 1, 2 and 3 form a chain of near
\* duplicates whose ends differ (Hamming distance is not transitive).  The
\* feeds repeat articles and overlap.
EXTENDS FetchPublish

Chain == {<<1, 2>>, <<2, 3>>}
ManyFeeds == {<<1, 3>>, <<3, 2, 3>>}
=============================================================================
