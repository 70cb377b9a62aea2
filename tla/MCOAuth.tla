------------------------------- MODULE MCOAuth -------------------------------
(* One connector of one user: two requests, one authorization code, two pairs  *)
(* of tokens.                                                                  *)
EXTENDS OAuthGrants
===============================================================================
