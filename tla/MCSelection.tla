---------------------------- MODULE MCSelection ----------------------------
EXTENDS SourceSelection

\* Days are counted in halves of the window of level 3.  An event is an article
\* without a minimal delay here: the instance has an article and a Gallica item.
MCConfigs ==
    {[policy |-> "never", window |-> 2], [policy |-> "always", window |-> 2],
     [policy |-> "window", window |-> 1], [policy |-> "window", window |-> 3]}
=============================================================================
