-------------------------------- MODULE Sums ---------------------------------
EXTENDS FiniteSetsExt

\* What the function f adds up to over the finite set S: Python's
\* sum(f[e] for e in S), as the process graph's counts are summed.
Sum(f, S) == MapThenSumSet(LAMBDA e : f[e], S)
=============================================================================
