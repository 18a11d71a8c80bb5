------------------------------- MODULE Overlay -------------------------------
(***************************************************************************)
(* The arithmetic of util/Overlay.cpp: the gossip graph that the overlay   *)
(* rounds follow, and the aggregation groups and binary trees.  Every      *)
(* operator has the parameters of the C++ function it stands for.  One     *)
(* marked "fault" is what a slip would make of the definition it precedes. *)
(***************************************************************************)
EXTENDS Integers, FiniteSets

primes == {3, 5, 7, 11, 13, 19, 29, 37}  \* fault: 2 generates only half of 7's group

\* util/PrimeModuli.h: the first primes of which 2 is a primitive root.
valid_prime_moduli == {3, 5, 11, 13, 19, 29, 37}

----------------------------------------------------------------------------
(* The gossip graph. *)

\* Square-and-multiply: the loop's variables after each of its turns, of which
\* the last one leaves 0 in pow.  The uint32_t product of the square cannot
\* wrap: the largest modulus of PrimeModuli.h is 24317 < 2^16.
mod_pow(num, pow, mod) ==
  LET left[turns \in 0..pow] == IF turns = 0 THEN pow ELSE left[turns-1] \div 2
      square[turns \in 0..pow] ==
        IF turns = 0 THEN num
        ELSE LET q == square[turns-1] IN (q * q) % mod
      result[turns \in 0..pow] ==
        IF turns = 0 THEN 1
        ELSE IF left[turns-1] % 2 = 1
             THEN (result[turns-1] * square[turns-1]) % mod
             ELSE result[turns-1]
      last == CHOOSE turns \in 0..pow : left[turns] = 0
  IN result[last]

mod_subtract_truncated(x, y, m) == x - y  \* fault: C's % leaves it negative

\* (x - y) % m with C's truncating %, plus m when it came out negative.
mod_subtract(x, y, m) == (x - y) + IF x >= y THEN 0 ELSE m

gossip_target(source_id, round, group_size) ==
  (source_id + mod_pow(2, round, group_size)) % group_size

gossip_predecessor(target_id, round, group_size) ==
  mod_subtract(target_id, mod_pow(2, round, group_size), group_size)

get_valid_prime_modulus(lower_bound) ==
  CHOOSE p \in valid_prime_moduli :
    /\ p >= lower_bound
    /\ \A q \in valid_prime_moduli : q >= lower_bound => p <= q

----------------------------------------------------------------------------
(* Aggregation groups: num_groups runs of consecutive IDs, the last two of *)
(* which share what the integer division leaves over.                      *)

standard_group_size(num_groups, num_meters) == num_meters \div num_groups

second_last_group_size(num_groups, num_meters) ==
  LET size == standard_group_size(num_groups, num_meters)
      leftover == num_meters - (num_groups - 1) * size
  IN (size + leftover) \div 2

aggregation_group_for(node_id, num_groups, num_meters) ==
  LET size == standard_group_size(num_groups, num_meters)
      second_last == second_last_group_size(num_groups, num_meters)
      begin == size * (num_groups - 2)
  IN IF node_id \div size < num_groups - 2
     THEN node_id \div size
     ELSE IF node_id >= begin /\ node_id < begin + second_last
          THEN num_groups - 2
          ELSE num_groups - 1

group_begin_uniform(group_num, num_groups, num_meters) ==  \* fault: groups all of one size
  group_num * standard_group_size(num_groups, num_meters)

\* First ID and size of a group, as pick_proxies and the tree functions
\* compute them.
group_begin(group_num, num_groups, num_meters) ==
  LET size == standard_group_size(num_groups, num_meters)
  IN IF group_num = num_groups - 1
     THEN (num_groups - 2) * size + second_last_group_size(num_groups, num_meters)
     ELSE group_num * size

group_size_of(group_num, num_groups, num_meters) ==
  CASE group_num = num_groups - 1 ->
         num_meters - group_begin(group_num, num_groups, num_meters)
    [] group_num = num_groups - 2 ->
         second_last_group_size(num_groups, num_meters)
    [] OTHER -> standard_group_size(num_groups, num_meters)

\* What random_int_exclude can return: max stands in for the excluded ID.
random_int_exclude(min, max, exclude) ==
  {IF choice = exclude THEN max ELSE choice : choice \in min..(max - 1)}

\* pick_proxies throws when a group would have fewer than two members.
pick_proxies_defined(num_groups, num_meters) ==
  standard_group_size(num_groups, num_meters) >= 2

\* The proxies pick_proxies may choose for group group_num.
proxy_candidates(node_id, group_num, num_groups, num_meters) ==
  LET begin == group_begin(group_num, num_groups, num_meters)
      end == begin + group_size_of(group_num, num_groups, num_meters) - 1
  IN IF node_id \in begin..end
     THEN random_int_exclude(begin, end, node_id)
     ELSE begin..end

----------------------------------------------------------------------------
(* The binary tree of each group; -1 is "none" (the utility, for a root). *)

aggregation_tree_parent(node_id, num_groups, num_meters) ==
  LET firstID == group_begin(aggregation_group_for(node_id, num_groups, num_meters),
                             num_groups, num_meters)
  IN IF node_id = firstID THEN -1
     ELSE (node_id - firstID - 1) \div 2 + firstID

aggregation_tree_children(node_id, num_groups, num_meters) ==
  LET group == aggregation_group_for(node_id, num_groups, num_meters)
      firstID == group_begin(group, num_groups, num_meters)
      size == group_size_of(group, num_groups, num_meters)
      right == (node_id - firstID + 1) * 2
      Present(relative) == IF relative < size THEN relative + firstID ELSE -1
  IN <<Present(right - 1), Present(right)>>

=============================================================================
