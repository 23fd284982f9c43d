\* The relaxed compare_exchange of try_await: the shortest run in which a
\* client reads a result that is not visible to it.
CONSTANTS
  Threads = {t1, t2}
  Coroutines = {body, c1, c2}
  Body = body
  Creator = c1
  NotStarted = NotStarted
  Ready = Ready
  Null = Null
  Outcomes = {value, error}
  NoOutcome = NoOutcome
SPECIFICATION Spec
INVARIANT ResultVisible
