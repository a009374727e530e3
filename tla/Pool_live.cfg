SPECIFICATION FairSpec
CONSTANTS
    w1 = w1  c1 = c1  c2 = c2  s1 = s1  s2 = s2  s3 = s3  r1 = r1
    k1 = k1  k2 = k2  t1 = t1  t2 = t2  p1 = p1
    None = None
    Worker = {w1}
    Conn = {c1}
    WorkerOf <- OneWorker
    Profile = {p1}
    ProfileOf <- OneProfile
    Session = {s1}
    Command = {r1}
    Closer = {k1}
    Sweep = {}
    Terminal = {t1}
    Reports = {"Normal"}
    ProbeSays = {"WorkerDied"}
    Env = {}
INVARIANTS
    RunningTracked
PROPERTIES
    ReleaseCompletes
    RequestsReturn
