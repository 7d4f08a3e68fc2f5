----------------------------- MODULE MCProviderStream -----------------------------
(***************************************************************************)
(* Requests and answers for TLC: tool lists whose names collide, must be   *)
(* sanitised, stand in a namespace or differ in type only; answers with    *)
(* text, whole, split and interleaved calls, ids that come late or change, *)
(* usage without a total, characters cut by a chunk, every tail of the     *)
(* wire.                                                                   *)
(***************************************************************************)
EXTENDS ModelPricing

Tool(name, type, namespace) == [name |-> name, type |-> type, namespace |-> namespace]

ToolLists == {
    <<Tool("f", "function", None), Tool("g", "function", None)>>,
    <<Tool("f", "function", None), Tool("f", "custom", None)>>,
    <<Tool("a.b", "function", None), Tool("a_b", "function", None), Tool("f", "custom", None)>>,
    <<Tool("f", "function", "n"), Tool("f", "function", None)>>,
    <<Tool("f", "function", "n"), Tool("g", "custom", None), Tool("g", "custom", "n")>> }

Text(t) == [type |-> "text", text |-> <<t>>]
Call(i, id, name, args) == [type |-> "call", index |-> i, id |-> id, name |-> name, args |-> args]
Rest(i, args) == Call(i, None, None, args)
Usage(in, out, total) ==
    [type |-> "usage", usage |-> [input |-> in, output |-> out, total |-> total]]
Finish(r) == [type |-> "finish", reason |-> r]
DoneMark == [type |-> "[DONE]"]

\* The calls of an answer are to the tools p and q.
Bodies(p, q) == {
    <<Text("hi"), Text("there")>>,
    <<Text("hi"), Call(0, "c1", p, Wrap(<<"x">>))>>,
    <<Call(0, "c1", p, <<"open", "x">>), Text("hi"), Rest(0, <<"y", "close">>)>>,
    <<Call(0, "c1", p, << >>), Call(1, "c2", q, <<"open">>), Rest(1, <<"close">>)>>,
    <<Call(1, "c2", q, <<"open", "x">>), Call(0, "c1", p, Wrap(<< >>)), Rest(1, <<"close">>)>>,
    <<Call(0, None, p, <<"open">>), Call(0, "c1", None, <<"x">>), Call(0, "c9", p, <<"close">>)>>,
    <<Call(2, "c3", p, <<"x">>), Text("hi"), Usage(1, 1, 0)>> }

Tails == {
    <<Finish("tool_calls"), Usage(2, 5, 7), DoneMark>>,
    <<Finish("content_filter"), DoneMark>>,
    <<Usage(2, 5, 0), Finish("length")>>,
    << >> }

NamesOf(route, tools) ==
    IF route = "openai_responses"
    THEN LET made == Adapters(tools) IN {made[i].canonical : i \in DOMAIN made}
    ELSE {Plain("f"), Plain("g")}

MCTurns ==
    UNION {UNION {
        {[route |-> route, backend |-> backend, tools |-> tools, answer |-> body \o tail, cut |-> << >>] :
            backend \in {"agent", "json", "bridge", "bridge_late"}, tail \in Tails,
            body \in UNION {Bodies(p, q) : p, q \in NamesOf(route, tools)}} :
        tools \in IF route = "openai_responses" THEN ToolLists ELSE {<< >>}} :
        route \in {"openai_chat", "anthropic_messages", "openai_responses"}}

Wide == "wide"  \* a character of several bytes
CutTurns ==
    {[route |-> route, backend |-> "agent", tools |-> << >>, cut |-> cut,
      answer |-> <<Text("hi"), Text(Wide), Call(0, "c1", Plain("f"), Wrap(<<"x", Wide>>))>> \o tail] :
        route \in {"openai_chat", "anthropic_messages", "openai_responses"},
        cut \in {2 :> 1, 3 :> 3, (2 :> 1) @@ (3 :> 3)}, tail \in {<<Finish("stop"), DoneMark>>, << >>}}

\* A provider that writes the names of the directory's models its own way and whose models
\* are called free, another that does neither, and an agent.
Offer(provider, id, input, output, params) ==
    [provider |-> provider, id |-> id, name |-> <<"M">>, input |-> input, output |-> output,
     request |-> None, params |-> params]
AgentOffer(mode) ==
    Offer("agent", <<"n">>, None, None, {}) @@
        [mode |-> mode, free |-> mode = "free", tools |-> FALSE, key |-> <<"repo", "agent", "n">>]

MCOffers == {
    Offer("p", <<"o", "m">>, None, None, {}),
    Offer("p", <<"m">>, 3, 4, {"other"}),
    Offer("p", <<"m">>, 3, None, {"tools"}),
    Offer("p", <<"m">>, None, None, {"other"}),
    Offer("nvidia", <<"m">>, None, None, {}),
    Offer("nvidia", <<"x-ai", "n">>, None, None, {}),
    AgentOffer("external_directory"),
    AgentOffer("free") }

Entry(id, slug, name, tokenPrice, request, tools) ==
    [id |-> id, slug |-> slug, name |-> <<name>>, input |-> tokenPrice, output |-> tokenPrice,
     request |-> request, tools |-> tools]

MCListings ==
    LET m == Entry(<<"o", "m">>, <<"o", "m-1">>, "O: M", 1, None, TRUE)
        f == Entry(<<"x", "m">>, None, "M", 0, None, TRUE)
        r == Entry(<<"x", "n">>, <<"x", "m">>, "N", None, 2, None)
    IN  {<<m>>, <<f>>, <<m, f>>, <<f, m>>, <<r, f>>, <<r, m>>}

MCAliasRules == {[provider |-> "nvidia", from |-> <<"x-ai">>, to |-> <<"x">>]}
MCCurated == (<<"nvidia", "m">> :> [input |-> 5, output |-> 5])
MCPricedTurns ==
    {[route |-> "openai_chat", backend |-> "json", tools |-> << >>, cut |-> << >>,
      answer |-> <<Text("hi")>> \o tail] : tail \in {<<Usage(2, 5, 9), Finish("stop")>>, << >>}}
MCNoToolModels == {<<"p", "o", "m">>}
MCAllTurns == MCTurns \cup CutTurns \cup MCPricedTurns

===============================================================================
