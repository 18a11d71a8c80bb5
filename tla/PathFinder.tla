------------------------------ MODULE PathFinder ------------------------------
(***************************************************************************)
(* The search for node-disjoint paths over the gossip graph                *)
(* (util/PathFinder.cpp), and the journey of a message along such a path.  *)
(*                                                                         *)
(* In one round no two nodes send to the same one, so the order in which   *)
(* the code walks its unordered set of infected nodes decides nothing.     *)
(* An operator marked "fault" is what a slip in the code would make of the *)
(* definition it precedes.                                                 *)
(***************************************************************************)
EXTENDS Integers, Sequences, SequencesExt, Overlay

MIN_PATH_LENGTH == 3

\* ceil(log2(n))
log2n(n) ==
  LET power[k \in 0..n] == IF k = 0 THEN 1 ELSE 2 * power[k-1]   \* of 2
  IN CHOOSE k \in 0..n : power[k] >= n /\ \A j \in 0..(k - 1) : power[j] < n

rounds_limit(num_targets, n) == log2n(n) * num_targets + MIN_PATH_LENGTH

NoPath == <<>>   \* find_path throws

infect_used(known, target, time, n, exclude) ==  \* fault: used nodes not skipped
  LET parent(x) == known[gossip_predecessor(x, time, n)]
      reached == {gossip_target(x, time, n) : x \in DOMAIN known} \ {target}
  IN [x \in DOMAIN known \cup reached |->
        IF x \in DOMAIN known THEN known[x]
        ELSE [path |-> Append(parent(x).path, x), infected_on_round |-> time + 1]]

\* The nodes infected after round time, when those of known were before it;
\* nodes of exclude, the target included, are left out.
infect(known, target, time, n, exclude) ==
  LET parent(x) == known[gossip_predecessor(x, time, n)]
      reached == {gossip_target(x, time, n) : x \in DOMAIN known}
                   \ (exclude \cup {target} \cup DOMAIN known)
  IN [x \in DOMAIN known \cup reached |->
        IF x \in DOMAIN known THEN known[x]
        ELSE [path |-> Append(parent(x).path, x), infected_on_round |-> time + 1]]

\* The nodes infected by round last, each with the nodes that the parent
\* pointers lead through and the round on which it was first infected.
infected(source, target, n, start, last, exclude) ==
  LET after[rounds \in 0..(last - start)] ==
        IF rounds = 0 THEN [x \in {source} |-> [path |-> <<x>>, infected_on_round |-> start]]
        ELSE infect(after[rounds-1], target, start + rounds - 1, n, exclude)
  IN after[last - start]

find_path_last(source, target, n, start, last, exclude) ==  \* fault: does not stop at the target
  LET nodes == infected(source, target, n, start, last, exclude)
      hits == {time \in (start + MIN_PATH_LENGTH)..(last - 1) :
                 \E x \in DOMAIN nodes :
                   nodes[x].infected_on_round <= time /\ gossip_target(x, time, n) = target}
      hit == CHOOSE time \in hits : \A other \in hits : time >= other
  IN IF hits = {} THEN NoPath
     ELSE Append(nodes[gossip_predecessor(target, hit, n)].path, target)

\* The target is reached in the first round, but for those before
\* MIN_PATH_LENGTH have passed, in which an infected node sends to it.
find_path(source, target, n, start, last, exclude) ==
  LET nodes == infected(source, target, n, start, last, exclude)
      hits == {time \in (start + MIN_PATH_LENGTH)..(last - 1) :
                 \E x \in DOMAIN nodes :
                   nodes[x].infected_on_round <= time /\ gossip_target(x, time, n) = target}
      hit == CHOOSE time \in hits : \A other \in hits : time <= other
  IN IF hits = {} THEN NoPath
     ELSE Append(nodes[gossip_predecessor(target, hit, n)].path, target)

\* The path to target that shares nothing with paths, the ones found before it,
\* nor with the other targets; without its source.
find_another(source, target, paths, targets, n, start) ==
  LET used == Range(targets) \cup UNION {Range(path) : path \in Range(paths)}
      path == find_path(source, target, n, start,
                        start + rounds_limit(Len(targets), n), used)
  IN IF path = NoPath THEN NoPath ELSE Tail(path)

\* One target after the other.
find_paths(source, targets, n, start) ==
  LET Add(paths, target) ==
        Append(paths, find_another(source, target, paths, targets, n, start))
      found[i \in 0..Len(targets)] ==
        IF i = 0 THEN <<>> ELSE Add(found[i-1], targets[i])
  IN found[Len(targets)]

\* The round after the one in which a message that leaves source in round
\* start reaches the end of path, when every node keeps it in waiting_messages
\* until the next one is its gossip target.
arrival(source, path, n, start) ==
  LET at[i \in 0..Len(path)] ==
        IF i = 0 THEN start
        ELSE LET from == IF i = 1 THEN source ELSE path[i-1]
                 sending == {t \in at[i-1]..(at[i-1] + n - 2) :
                               gossip_target(from, t, n) = path[i]}
             IN 1 + CHOOSE t \in sending : \A other \in sending : t <= other
  IN at[Len(path)]

=============================================================================
