-------------------------- MODULE MCRuntimeConfig ---------------------------
(* RuntimeConfig on files of up to four lines.                             *)
EXTENDS RuntimeConfig

Top(key) == [shape |-> "header", key |-> key, text |-> "", nums |-> {}, depth |-> 0]
Pair(key, text, depth) == [shape |-> "pair", key |-> key, text |-> text, nums |-> {}, depth |-> depth]
List(key, nums, depth) == [shape |-> "list", key |-> key, text |-> "", nums |-> nums, depth |-> depth]

\* Sections, settings inside them, a setting with no section of its own, a value
\* that is none, a section in flow style, lists in and out of their section, and
\* lists of items below a header at the top and below a nested one.
MCLines ==
  {Top("domains"), Top("file_probes"), Top("network_filters"), Top("filters"), Top("sink"),
   Pair("process", "false", 1), Pair("process", "true", 1), Pair("file", "false", 1),
   Pair("process", "false", 0), Pair("file", "bad", 1), Pair("network_socket", "true", 1),
   Pair("openat", "false", 1), Pair("max_file_size_bytes", "small", 1), Pair("path", "out", 1),
   Pair("domains", "{...}", 0),
   List("pid_allowlist", {7, 8}, 0), List("pid_allowlist", {7}, 1), List("port_allowlist", {80}, 1),
   Top("pid_allowlist"), [Top("pid_allowlist") EXCEPT !.depth = 1],
   [shape |-> "item", key |-> "", text |-> "9", nums |-> {9}, depth |-> 1]}
=============================================================================
