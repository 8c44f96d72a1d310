--------------------------- MODULE MCShardSession ---------------------------
EXTENDS ShardSession

MCCase(adds, dry) == [adds |-> adds, dry_run |-> dry, faults |-> 1]

\* A session that cuts and uploads two shards; one with more than a shard to merge after
\* a resumption; two that upload the same xorb; two that take over from a third; a dry
\* run beside a session.
MCCases ==
  {MCCase("s1" :> {"x1", "x2", "f1"}, {}),
   MCCase(("s1" :> {"x1"}) @@ ("s2" :> {"x2", "f1"}), {}),
   MCCase(("s1" :> {"x1", "x2"}) @@ ("s2" :> {"x2"}), {}),
   MCCase(("s1" :> {"x1"}) @@ ("s2" :> {}) @@ ("s3" :> {}), {}),
   MCCase(("s1" :> {"x1"}) @@ ("s2" :> {"x1", "x2"}), {"s1"})}
=============================================================================
