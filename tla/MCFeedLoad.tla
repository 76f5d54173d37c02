----------------------------- MODULE MCFeedLoad -----------------------------
(* Instances of FeedLoad for TLC. *)
EXTENDS FeedLoad

MCMissing == -1

\* Times that rise, repeat, run backwards, are negative or too large; trades
\* that do not fit their word; fields and whole rows that cannot be read.
MCFields == {0, 3, 5, 14, -2, 40, Unreadable}

MCHeader == <<"system_time", "midpoint", "buys", "sells">>
MCHeaders ==
  {<<"midpoint", "other", "system_time", "buys">>,
   <<"system_time", "midpoint", "sells", "midpoint", "buys">>,
   <<"system_time", "buys">>}

Row(t, m, b, s) == <<t, m, b, s>>

MCRising == {Row(t, 7, 3, 5) : t \in {0, 3, 5, 14}}
MCRows == {Row(t, 7, b, s) : t \in MCFields, b \in {3, 14}, s \in {5, -2}}

MCFiles ==
  {<<>>, <<MCHeader>>, <<MCHeader, <<>>, <<>>>>}
    \cup {<<MCHeader>> \o rows : rows \in [1 .. 4 -> MCRising \cup {<<>>}]}
    \cup {<<MCHeader>> \o rows : rows \in [1 .. 2 -> MCRows \cup {<<>>, <<Unreadable>>}]}
    \cup {<<header, Row(a, b, 9, 2), <<c>>, Row(5, 7, 3, 0)>> :
            header \in MCHeaders, a, b, c \in MCFields}
=============================================================================
