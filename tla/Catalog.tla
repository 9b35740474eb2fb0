------------------------------- MODULE Catalog -------------------------------
(***************************************************************************)
(* Products, environments, agent pools and plugins: their tables, and the  *)
(* lists of them that services/cache_service.py keeps in Redis.  A list    *)
(* request looks into the cache, adds the built-in rows that are missing,  *)
(* reads the table and stores what it read; a request that writes commits  *)
(* and then drops the list.  Other requests come between those steps, and  *)
(* Redis may be out of reach at any of them, which no request notices.     *)
(***************************************************************************)
EXTENDS Integers, Sequences, FiniteSets

CONSTANTS
  MaxRequests,   \* bound: requests are made in the order of their numbers
  Details, First, \* what a row says besides its name, at its creation and later
  Rank,          \* the order of the list of products, by what they say: their names are in Details
  PageSize,      \* bound: products on a list that asks for no page (50 in the code)
  Configs,
  Gone,          \* a deleted row: ids are not used again
  TTL            \* ticks that a stored list lives

Requests == 1..MaxRequests

Collections == {"products", "environments", "pools", "plugins"}

\* What the list routes seed.
Builtins(c) == IF c \in {"pools", "plugins"} THEN {"builtin"} ELSE {}

\* Where nothing asks for a name, one is enough.
Names(c) == {"own"} \cup Builtins(c)

ASSUME CatalogAssumption ==
  /\ First \in Details /\ TTL \in Nat \ {0} /\ MaxRequests \in Nat
  /\ Rank \in [Details -> Nat] /\ PageSize \in Nat \ {0}
  /\ Gone \notin [name : {"own", "builtin"}, builtin : BOOLEAN, detail : Details, configs : SUBSET Configs]

VARIABLES
  table,      \* table[c]: the rows, in the order of their creation
  attached,   \* environments of products
  cache,      \* cache[c]: Nothing, or the list and the ticks it has left
  redis,      \* can it be reached?
  call,       \* the requests
  lapse       \* history: the cached list may be older than the table (see CacheCoherent)

catalog == <<table, attached, cache, redis, call, lapse>>

-----------------------------------------------------------------------------
Row(name, builtin) == [name |-> name, builtin |-> builtin, detail |-> First, configs |-> {}]

Left(rows) == {i \in DOMAIN rows : rows[i] # Gone}

Live(c) == Left(table[c])

Taken(c) == {table[c][i].name : i \in Live(c)}

\* query.order_by(Product.name); what the names leave open is settled by age.
Before(rows, i, j) ==
  LET a == Rank[rows[i].detail]
      b == Rank[rows[j].detail]
  IN  a < b \/ (a = b /\ i < j)

\* paginate: the list of products ends with the first page.  The other lists have none.
OnPage(c, rows, i) ==
  c = "products" => Cardinality({j \in Left(rows) : Before(rows, j, i)}) < PageSize

\* The rows of a list as to_dict shows them: with the number of their configurations.
Shown(c, rows) ==
  [i \in {j \in Left(rows) : OnPage(c, rows, j)} |-> [rows[i] EXCEPT !.configs = Cardinality(@)]]

View(c) == Shown(c, table[c])

Nothing == [list |-> <<>>, left |-> -1]

New == [at |-> "new"]
Done == [at |-> "done"]

CatalogInit ==
  /\ table = [c \in Collections |-> <<>>]
  /\ attached = {}
  /\ cache = [c \in Collections |-> Nothing]
  /\ redis = TRUE
  /\ call = [r \in Requests |-> New]
  /\ lapse = [c \in Collections |-> FALSE]

\* The request that comes next.
Arrives(r) == call[r] = New /\ \A q \in Requests : q < r => call[q] # New

Answer(r) == call' = [call EXCEPT ![r] = Done]

-----------------------------------------------------------------------------
(* The lists.                                                              *)

\* cache_service.get: a hit is the answer.  After a miss, what is not there is to be seeded.
LookUp(r, c) ==
  /\ Arrives(r)
  /\ IF redis /\ cache[c] # Nothing
     THEN Answer(r)
     ELSE call' = [call EXCEPT ![r] = [at |-> "missed", coll |-> c, seed |-> Builtins(c) \ Taken(c)]]
  /\ UNCHANGED <<table, attached, cache, redis, lapse>>

\* The lists that have been read before a change are late.
Overtaken(c) ==
  [r \in Requests |-> IF call[r].at = "loaded" /\ call[r].coll = c THEN [call[r] EXCEPT !.late = TRUE] ELSE call[r]]

\* (Mutant of SeedingFails: the name of a plugin is not unique.)
SeedingPasses(r) == call[r].at = "loaded"

\* ensure_builtin_plugins, ensure_builtin_pools: only the names of plugins are unique.
SeedingFails(r) == call[r].coll = "plugins" /\ call[r].seed \cap Taken("plugins") # {}

Seeded(r) ==
  [i \in 1..Cardinality(call[r].seed) |-> Row("builtin", TRUE)]

Load(r) ==
  /\ call[r].at = "missed" /\ ~SeedingFails(r)
  /\ LET c == call[r].coll
         rows == table[c] \o Seeded(r)
     IN  /\ table' = [table EXCEPT ![c] = rows]
         /\ lapse' = [lapse EXCEPT ![c] = @ \/ Seeded(r) # <<>>]
         /\ call' = [(IF Seeded(r) # <<>> THEN Overtaken(c) ELSE call) EXCEPT ![r] =
                       [at |-> "loaded", coll |-> c, list |-> Shown(c, rows), late |-> FALSE]]
  /\ UNCHANGED <<attached, cache, redis>>

LoadFails(r) ==
  /\ call[r].at = "missed" /\ SeedingFails(r)
  /\ Answer(r)
  /\ UNCHANGED <<table, attached, cache, redis, lapse>>

\* (Mutant of Store: no TTL.)
StoreForEver(r) ==
  /\ call[r].at = "loaded"
  /\ LET c == call[r].coll
     IN  /\ cache' = IF redis THEN [cache EXCEPT ![c] = [list |-> call[r].list, left |-> 0]] ELSE cache
         /\ lapse' = IF redis THEN [lapse EXCEPT ![c] = call[r].late] ELSE lapse
  /\ Answer(r)
  /\ UNCHANGED <<table, attached, redis>>

\* cache_service.set.
Store(r) ==
  /\ call[r].at = "loaded"
  /\ LET c == call[r].coll
     IN  /\ cache' = IF redis THEN [cache EXCEPT ![c] = [list |-> call[r].list, left |-> TTL]] ELSE cache
         /\ lapse' = IF redis THEN [lapse EXCEPT ![c] = call[r].late] ELSE lapse
  /\ Answer(r)
  /\ UNCHANGED <<table, attached, redis>>

-----------------------------------------------------------------------------
(* The writers.                                                            *)

\* The commit; the list is to be dropped.
Write(r, c, rows) ==
  /\ Arrives(r)
  /\ table' = [table EXCEPT ![c] = rows]
  /\ call' = [Overtaken(c) EXCEPT ![r] = [at |-> "written", coll |-> c]]
  /\ UNCHANGED <<cache, redis, lapse>>

\* The same in a request that leaves the cache alone.
WriteSilently(r, c, rows) ==
  /\ Arrives(r)
  /\ table' = [table EXCEPT ![c] = rows]
  /\ call' = [Overtaken(c) EXCEPT ![r] = Done]
  /\ lapse' = [lapse EXCEPT ![c] = TRUE]
  /\ UNCHANGED <<attached, cache, redis>>

\* cache_service.invalidate.
Invalidate(r) ==
  /\ call[r].at = "written"
  /\ LET c == call[r].coll
     IN  /\ cache' = IF redis THEN [cache EXCEPT ![c] = Nothing] ELSE cache
         /\ lapse' = [lapse EXCEPT ![c] = ~redis]
  /\ Answer(r)
  /\ UNCHANGED <<table, attached, redis>>

Create(r, c, name) ==
  /\ c = "plugins" => name \notin Taken(c)
  /\ Write(r, c, Append(table[c], Row(name, FALSE)))
  /\ UNCHANGED attached

\* Pools have no update; of a plugin only is_enabled changes.
Update(r, c, i, detail) ==
  /\ c # "pools" /\ i \in Live(c)
  /\ Write(r, c, [table[c] EXCEPT ![i].detail = detail])
  /\ UNCHANGED attached

TogglePlugin(r, i) ==
  \E detail \in Details : i \in Live("plugins") /\ detail # table.plugins[i].detail /\ Update(r, "plugins", i, detail)

\* (Mutant of Delete: the list stays.)
DeleteQuietly(r, c, i) ==
  /\ i \in Live(c) /\ ~table[c][i].builtin /\ Arrives(r)
  /\ table' = [table EXCEPT ![c][i] = Gone]
  /\ call' = [Overtaken(c) EXCEPT ![r] = Done]
  /\ attached' = {x \in attached : (c = "products" => x[1] # i) /\ (c = "environments" => x[2] # i)}
  /\ UNCHANGED <<cache, redis, lapse>>

\* Built-in rows are not deleted.  The attachments go along.
Delete(r, c, i) ==
  /\ i \in Live(c) /\ ~table[c][i].builtin
  /\ Write(r, c, [table[c] EXCEPT ![i] = Gone])
  /\ attached' = {x \in attached : (c = "products" => x[1] # i) /\ (c = "environments" => x[2] # i)}

AttachEnvironment(r, p, e) ==
  /\ Arrives(r) /\ p \in Live("products") /\ e \in Live("environments")
  /\ attached' = attached \cup {<<p, e>>} /\ Answer(r)
  /\ UNCHANGED <<table, cache, redis, lapse>>

DetachEnvironment(r, p, e) ==
  /\ Arrives(r) /\ <<p, e>> \in attached
  /\ attached' = attached \ {<<p, e>>} /\ Answer(r)
  /\ UNCHANGED <<table, cache, redis, lapse>>

\* import_environments, import_agent_pools: one new row, if the name is.
Import(r, c, name) ==
  /\ c \in {"environments", "pools"} /\ name \notin Taken(c)
  /\ WriteSilently(r, c, Append(table[c], Row(name, FALSE)))

\* create_config and delete_config; update_config changes nothing a list shows.
SetConfigs(r, i, configs) ==
  /\ i \in Live("plugins") /\ configs # table.plugins[i].configs
  /\ WriteSilently(r, "plugins", [table.plugins EXCEPT ![i].configs = configs])

-----------------------------------------------------------------------------
(* Redis and time.                                                         *)

RedisFails == redis /\ redis' = FALSE /\ UNCHANGED <<table, attached, cache, call, lapse>>

\* It was out of reach, or had stopped and comes back empty.
RedisReturns ==
  /\ ~redis /\ redis' = TRUE
  /\ \/ UNCHANGED <<cache, lapse>>
     \/ /\ cache' = [c \in Collections |-> Nothing]
        /\ lapse' = [c \in Collections |-> FALSE]
  /\ UNCHANGED <<table, attached, call>>

\* (A list with 0 ticks left when it was stored would not expire.)
Tick ==
  /\ \E c \in Collections : cache[c].left > 0
  /\ cache' = [c \in Collections |->
                 IF cache[c].left = 1 THEN Nothing
                 ELSE IF cache[c].left > 1 THEN [cache[c] EXCEPT !.left = @ - 1] ELSE cache[c]]
  /\ UNCHANGED <<table, attached, redis, call, lapse>>

CatalogRequest(r) ==
  \/ Load(r) \/ LoadFails(r) \/ Store(r) \/ Invalidate(r)
  \/ \E c \in Collections :
       \/ LookUp(r, c)
       \/ \E name \in Names(c) : Create(r, c, name) \/ Import(r, c, name)
       \/ \E i \in DOMAIN table[c] :
            \/ Delete(r, c, i)
            \/ c \in {"products", "environments"} /\ \E detail \in Details : Update(r, c, i, detail)
  \/ \E i \in DOMAIN table.plugins : TogglePlugin(r, i) \/ \E configs \in SUBSET Configs : SetConfigs(r, i, configs)
  \/ \E p \in DOMAIN table.products, e \in DOMAIN table.environments :
       AttachEnvironment(r, p, e) \/ DetachEnvironment(r, p, e)

\* The worker that serves a request is killed: what it has committed stays.  A list that
\* it had to drop is not dropped.
Abandon(S) ==
  /\ call' = [r \in Requests |-> IF r \in S THEN Done ELSE call[r]]
  /\ lapse' = [c \in Collections |->
                 lapse[c] \/ \E r \in S : call[r].at = "written" /\ call[r].coll = c]

Open == {r \in Requests : call[r].at \notin {"new", "done"}}

-----------------------------------------------------------------------------
RowType == [name : {"own", "builtin"}, builtin : BOOLEAN, detail : Details, configs : SUBSET Configs]

\* Rows are what they should be, plugin names are unique however seeding and registration overlap,
\* and what is attached exists (routes/plugins.py:226, routes/environments.py:104).
CatalogTypeOK ==
  /\ table \in [Collections -> Seq(RowType \cup {Gone})]
  /\ \A c \in Collections : cache[c].left \in -1..TTL
  /\ \A i, j \in Live("plugins") : table.plugins[i].name = table.plugins[j].name => i = j
  /\ attached \subseteq Live("products") \X Live("environments")

\* A cached list is the table, of products its first page: as long as it was not read before a change that was already
\* committed when it was stored, and every change since was followed by an invalidation that
\* reached Redis or is about to be (cache_service.py:12-13).
CacheCoherent ==
  \A c \in Collections :
    cache[c] # Nothing /\ ~lapse[c] /\ (\A r \in Requests : call[r].at = "written" => call[r].coll # c)
      => cache[c].list = View(c)

\* Whatever went wrong, a list that is behind its table is not served for ever.
StaleEnds == \A c \in Collections : []<>(cache[c] = Nothing \/ cache[c].list = View(c))
=============================================================================
