--------------------------- MODULE MCSystemConfig ---------------------------
EXTENDS SystemConfig

MCDefaultModel(p) == IF p = "openai" THEN "gpt-4o" ELSE "claude"
\* An empty environment, and one whose .env chooses a provider and has its key.
MCContainers ==
  {NothingSet, [NothingSet EXCEPT !.provider = "openai", !.key["openai"] = "k0"]}
=============================================================================
