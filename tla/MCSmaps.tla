------------------------------ MODULE MCSmaps ------------------------------
(***************************************************************************)
(* Small files for Smaps: up to three mappings, of the tracing library or  *)
(* not, with values, with lines that have no units or unexpected ones.     *)
(***************************************************************************)
EXTENDS Smaps

KeyLine(key, val, units) == [key |-> key, val |-> val, units |-> units]

Header(trace) == [key |-> "header", trace |-> trace]

End == KeyLine("VmFlags", 0, "other")

Bodies ==
  {<<KeyLine("Rss", 2, "kB"), KeyLine("Pss", 1, "kB"), End>>,
   <<KeyLine("Pss", 2, "kB"), KeyLine(Other, 0, "none"), End>>,
   <<KeyLine(Other, 4, "kB"), KeyLine("Pss", 3, "other"), End>>}

Entries == {<<Header(t)>> \o b : t \in BOOLEAN, b \in Bodies}

MCTallied == {"Rss", "Pss"}

MCFiles ==
  {<<>>} \union Entries
    \union {e \o f : e \in Entries, f \in Entries}
    \union {e \o f \o g : e \in Entries, f \in Entries, g \in Entries}

=============================================================================
