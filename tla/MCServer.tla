------------------------------ MODULE MCServer ------------------------------
(***************************************************************************)
(* Server for TLC.  The .env files: one that sets what must be set, small  *)
(* sizes that make the limits bite, and for each check of the              *)
(* configuration a file that it is about.                                  *)
(***************************************************************************)
EXTENDS Server

CONSTANTS s1, s2, v1, v2, r1

MCLoads == {{s1, s2}, {s1, v1}, {v1, v2, r1}}

Minimal ==
    [Port |-> 8080, Environment |-> "development", DBPostgreDriver |-> "postgres",
     DBPostgreDsn |-> "dsn", DBPostgreURL |-> "", DBMaxOpenConns |-> 0, DBMaxIdleConns |-> 0,
     DBConnMaxLifeMins |-> 0, JWTSecret |-> 32, JWTExpired |-> 1, JWTIssuer |-> "issuer",
     JWTRefreshExpired |-> 0, OTPEmail |-> "mail", OTPPassword |-> "pass", OTPMaxAttempts |-> 0,
     MailerWorkers |-> 0, MailerQueueSize |-> 0, MailerRetries |-> 0, BcryptCost |-> 0,
     OTelExporter |-> "", OTelSampleRatio |-> 0, REDISHost |-> "host", REDISPassword |-> "pass",
     REDISExpired |-> 1, AllowedOrigins |-> <<>>]

Small ==
    [Minimal EXCEPT !.DBMaxOpenConns = 3, !.DBMaxIdleConns = 1, !.MailerWorkers = -1,
                    !.MailerQueueSize = 2, !.MailerRetries = 2, !.OTelExporter = "otlp"]

Smallest ==
    [Minimal EXCEPT !.DBMaxOpenConns = 1, !.DBMaxIdleConns = 1, !.MailerWorkers = 1,
                    !.MailerQueueSize = 1, !.MailerRetries = 2]

Production ==
    [Minimal EXCEPT !.Environment = "production", !.DBPostgreURL = "url",
                    !.AllowedOrigins = <<"", "">>]

MCDotEnvs ==
    {Minimal, Small, Smallest, Production,
     [Minimal EXCEPT !.JWTSecret = 31], [Minimal EXCEPT !.JWTExpired = 721],
     [Minimal EXCEPT !.JWTRefreshExpired = -1], [Minimal EXCEPT !.REDISExpired = 0],
     [Minimal EXCEPT !.Port = 65536], [Minimal EXCEPT !.DBMaxOpenConns = 4],
     [Minimal EXCEPT !.BcryptCost = 9], [Minimal EXCEPT !.OTPMaxAttempts = -1],
     [Minimal EXCEPT !.OTPEmail = ""], [Minimal EXCEPT !.OTelExporter = "jaeger"],
     [Production EXCEPT !.AllowedOrigins = <<>>], [Production EXCEPT !.DBPostgreURL = "malformed"],
     [Minimal EXCEPT !.Environment = "staging"]}

=============================================================================
