------------------------------ MODULE MCServices ------------------------------
(* The services around the tracker, each on its own in the same run: the part  *)
(* under way is chosen at the start and the others stay as they begin.         *)
EXTENDS OAuthGrants, SignInMethods, Sessions, RateLimiter, Realtime, GitHubLinks

VARIABLE part

Parts == {"oauth", "methods", "sessions", "limiter", "realtime", "github"}

serviceVars == <<oauthVars, signInVars, sessionVars, limiterVars, realtimeVars,
                 githubVars, part>>

ServicesInit ==
    /\ part \in Parts
    /\ OAuthInit /\ SignInInit /\ SessionsInit /\ LimiterInit /\ RealtimeInit
    /\ GitHubInit
    /\ part # "methods" => password = "on" /\ Active = {}

ServicesNext ==
    \/ /\ part = "oauth" /\ OAuthNext
       /\ UNCHANGED <<signInVars, sessionVars, limiterVars, realtimeVars, githubVars, part>>
    \/ /\ part = "methods" /\ SignInNext
       /\ UNCHANGED <<oauthVars, sessionVars, limiterVars, realtimeVars, githubVars, part>>
    \/ /\ part = "sessions" /\ SessionsNext
       /\ UNCHANGED <<oauthVars, signInVars, limiterVars, realtimeVars, githubVars, part>>
    \/ /\ part = "limiter" /\ LimiterNext
       /\ UNCHANGED <<oauthVars, signInVars, sessionVars, realtimeVars, githubVars, part>>
    \/ /\ part = "realtime" /\ RealtimeNext
       /\ UNCHANGED <<oauthVars, signInVars, sessionVars, limiterVars, githubVars, part>>
    \/ /\ part = "github" /\ GitHubNext
       /\ UNCHANGED <<oauthVars, signInVars, sessionVars, limiterVars, realtimeVars, part>>

ServicesSpec == ServicesInit /\ [][ServicesNext]_serviceVars /\ GitHubFairness

\* The state of every part stays within its types, and its tables within their size.
ServicesTypeOK ==
    /\ OAuthTypeOK /\ SignInTypeOK /\ SessionsTypeOK /\ LimiterTypeOK
    /\ RealtimeTypeOK /\ GitHubTypeOK
===============================================================================
