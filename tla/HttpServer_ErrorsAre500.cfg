\* Two paths, two methods, a status scripts set, up to two routes and two
\* middlewares, one request.
CONSTANTS
    Paths = {a, b}
    Methods = {GET, POST}
    SetCodes = {201}
    MaxRoutes = 2
    MaxMws = 2
    MaxReqs = 1
SPECIFICATION Spec
INVARIANT ErrorsAre500
