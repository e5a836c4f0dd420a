---------------------------- MODULE MCPermission ----------------------------
EXTENDS Permission

\* A private directory inside the directory the agent was started in, and
\* outside it a repository with its hooks.
MCPaths  == {"ssh", "repo", "hooks"}
MCWithin == {<<"hooks", "repo">>}
=============================================================================
