--------------------------- MODULE MCGamedataPair ---------------------------
EXTENDS GamedataPair

\* Bound of MCPair: what is downloaded blindly, without a listing, is the last
\* release there will be, and nothing fails as long as it is in use.  What
\* happens when a release is published meanwhile is MCPairBlind.
Blind == Unknown \in {result.sha} \cup UNION {{disk[a].meta, disk[a].sha} : a \in Archives}
BlindIsLast ==
  Blind \/ Blind' => latest = MaxRelease /\ UNCHANGED latest /\ faults' = 0
=============================================================================
