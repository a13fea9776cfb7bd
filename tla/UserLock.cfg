SPECIFICATION Spec
CONSTANTS
  a = a
  b = b
  c = c
  d = d
  api = api
  worker = worker
  u1 = u1
  u2 = u2
  Callers = {a, b, c, d}
  Pools = {api, worker}
  PoolOf <- MCPoolOf
  UserOf <- MCUserOf
  MaxConns <- MCMaxConns
  Users = {u1, u2}
  MaxFaults = 1
  Nobody = Nobody
  Lost = Lost
INVARIANTS MutualExclusion NoGridlock
PROPERTY EveryCallReturns
