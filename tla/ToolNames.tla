----------------------------- MODULE ToolNames -----------------------------
(***************************************************************************)
(* The two parsers of streaming/tool_names.py.  A name is a sequence of    *)
(* characters, of which only the separators' count.                        *)
(***************************************************************************)
EXTENDS Integers, SequencesExt

Underscore == "_"
Slash == "/"

McpSeparator == <<Underscore, Underscore>>
MarketplaceSeparator == <<Slash>>

OccursAt(name, separator, i) ==
  /\ i + Len(separator) - 1 <= Len(name)
  /\ SubSeq(name, i, i + Len(separator) - 1) = separator

\* Mutant: the last place.
Find_Last(name, separator) ==
  LET at == {i \in DOMAIN name : OccursAt(name, separator, i)}
  IN  IF at = {} THEN 0 ELSE Max(at)

\* The first place of the separator; 0 for str.find's -1.
Find(name, separator) ==
  LET at == {i \in DOMAIN name : OccursAt(name, separator, i)}
  IN  IF at = {} THEN 0 ELSE Min(at)

ParseMcpToolName(name) ==
  LET i == Find(name, McpSeparator)
  IN  IF i > 1 THEN [is_mcp |-> TRUE, server |-> SubSeq(name, 1, i - 1),
                     tool |-> SubSeq(name, i + Len(McpSeparator), Len(name))]
      ELSE [is_mcp |-> FALSE]

\* The method raises a ValueError where this is "ValueError".
ParseMarketplaceToolName(name) ==
  LET i == Find(name, MarketplaceSeparator)
  IN  IF i <= 1 THEN [error |-> "ValueError"]
      ELSE [org_slug |-> SubSeq(name, 1, i - 1), tool_name |-> SubSeq(name, i + 1, Len(name))]
=============================================================================
