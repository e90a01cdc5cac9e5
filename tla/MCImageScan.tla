---------------------------- MODULE MCImageScan ----------------------------
EXTENDS ImageScan

CONSTANTS s1, s2, i1, i2, i3, i4, i5, r1, r2, p1

MCKnown == <<{r1}, {r1, r2}>>
MCRegistryOf == [i \in Images |-> r1]
MCProjectOf == [i \in Images |-> p1]

\* A scanner with the manager; two scanners; a workload of two images; one of an
\* image without a tag and one whose tag has moved; an image pushed by hand.
MCDeployments ==
  {[manager |-> TRUE, scanners |-> {s1}, images |-> {i1}, faults |-> 0, rescans |-> 1],
   [manager |-> FALSE, scanners |-> {s1, s2}, images |-> {i1}, faults |-> 0, rescans |-> 0],
   [manager |-> FALSE, scanners |-> {s1}, images |-> {i1, i2}, faults |-> 1, rescans |-> 0],
   [manager |-> FALSE, scanners |-> {s1}, images |-> {i3, i4}, faults |-> 1, rescans |-> 1],
   [manager |-> FALSE, scanners |-> {s1}, images |-> {i5}, faults |-> 1, rescans |-> 0]}

=============================================================================
