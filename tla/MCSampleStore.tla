---------------------------- MODULE MCSampleStore ----------------------------
(***************************************************************************)
(* Small tables and files for SampleStore: one key of /proc/self/status    *)
(* and the three keys of /proc/meminfo that depend on each other, words of *)
(* two bits, files with a key missing, a key twice, a key of the other     *)
(* table, a line without a key, without a number, and with one too large.  *)
(***************************************************************************)
EXTENDS SampleStore

Entry(k, v) == [key |-> k, val |-> v]

MCSelfKey == {"VmRSS"}
MCNodeKey == {"MemTotal", "MemFree", "MemUsed"}

MCStatusFiles ==
  {<<Entry(Other, NoDigits), Entry("VmRSS", 1), Entry("MemFree", 2), Entry("VmRSS", 3)>>,
   <<Entry("VmRSS", 1), Entry(NoColon, 7)>>,
   <<Entry("VmRSS", 4)>>}

MCMeminfoFiles ==
  {<<Entry("MemFree", 1), Entry("VmRSS", NoDigits), Entry("MemTotal", 3)>>,
   <<Entry("MemUsed", 1), Entry("MemFree", NoDigits)>>}

=============================================================================
