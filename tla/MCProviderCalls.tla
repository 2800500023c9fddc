--------------------------- MODULE MCProviderCalls ---------------------------
EXTENDS ProviderCalls
CONSTANTS a, b, c, x
MCID == [p \in {a, b, c} |-> IF p \in {a, b} THEN "openai" ELSE "google"]
MCTags == [p \in {a, b, c} |-> IF p = c THEN {"google"} ELSE {"openai", "smart"}]

MCOrder == <<a, b, c>>
MCMonitored == {<<>>, <<b, c>>}
=============================================================================
