---------------------------- MODULE MCModelWire ----------------------------
EXTENDS ModelWire
Setup(vendor, key, model, tier, limit) ==
    [vendor |-> vendor, key |-> key, model |-> model, tier |-> tier, limit |-> limit,
     endpoint |-> "e", deployment |-> "d"]
Vendors == {"openai", "azure", "anthropic", "google"}
MCSetups == {Setup(v, k, m, "smart", l) : v \in Vendors, k \in {"", "k"}, m \in {"", "m"}, l \in {0, 7}}
Message(role, text) == [role |-> role, text |-> text]
Conversations == {<<>>, <<Message("system", "s"), Message("user", "u")>>,
                  <<Message("system", "s"), Message("user", "u"), Message("assistant", "a"),
                    Message("system", "t"), Message("tool", "r"), Message("user", "")>>}
Request(c, l, x) == [messages |-> c, limit |-> l, temperature |-> "0.5", stream |-> x]
Part(type, text) == [type |-> type, text |-> text]
MCAnswers == {[json |-> j, parts |-> p, used |-> 2] :
            j \in BOOLEAN, p \in {<<>>, <<Part("text", "x"), Part("tool_use", ""), Part("text", "y")>>}}
Line(kind, text, used) == [kind |-> kind, text |-> text, used |-> used]
Lines == {Line("text", "x", 0), Line("text", "y", 1), Line("bare", "", 0), Line("usage", "", 2),
          Line("stop", "", 0), Line("noise", "", 0)}
MCScripts == {[lines |-> q, end |-> e] :
                q \in UNION {[1..n -> Lines] : n \in 0..3}, e \in {"eof", "broken", "stall"}}
Silence == [lines |-> <<>>, end |-> "eof"]
MCCases ==
    {[setup |-> s, request |-> Request(c, l, x), script |-> Silence] :
        s \in MCSetups, c \in Conversations, l \in {<<>>, <<3>>}, x \in BOOLEAN}
    \union {[setup |-> Setup(v, "k", "m", "fast", 0), request |-> Request(<<Message("user", "u")>>, <<>>, TRUE),
             script |-> q] : v \in Vendors, q \in MCScripts}
=============================================================================
