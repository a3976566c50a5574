\* A tier without the agent, one with it, and the whole fleet; a rollout, a
\* document that goes live past it, and a rollout after it.
SPECIFICATION FairSpec
CONSTANTS
    a1 = a1
    Agents = {a1}
    Bucket <- MCBucket
    Tiers <- MCTiers
    MaxVersions = 4
PROPERTIES ServedGrows RolloutEnds EventuallyConfigured
